---- MODULE Spec2Model ----
(***************************************************************************)
(* Authentication and request gating of the CMS platform API.              *)
(*                                                                         *)
(* Part I   - the token service (lib/auth.ts) and the three auth routes    *)
(*            (register, login, refresh) over the user and refresh-token   *)
(*            tables.  A handler is cut at its awaits on the store: each   *)
(*            action is the effect of one store call followed by the       *)
(*            synchronous code up to the next store call.                  *)
(* Part II  - SimpleCache, RateLimiter.checkLimit and the middleware.      *)
(*                                                                         *)
(* Time is Date.now() in milliseconds.  A JWT is the record of what        *)
(* jsonwebtoken signs: the secret, the payload, iat and exp in seconds.    *)
(* HS256 is deterministic, so two tokens are the same string exactly when  *)
(* these records are equal.                                                *)
(***************************************************************************)
EXTENDS Integers, Sequences, FiniteSets, TLC

(* ------------------------------ bounds -------------------------------- *)

\* concurrent request handlers
NumProcs == 2
\* auth requests started in one behaviour
MaxCalls == 3
\* clock seconds the auth scenarios may advance one by one
MaxSeconds == 1
\* gateway requests started in one behaviour of the short scenarios
MaxRateCalls == 3
\* requests past the ceiling in the sequential scenario
Overshoot == 2
\* clock steps per rate-limit hour
TicksPerWindow == 2
\* register requests started in one behaviour of the registration scenario
MaxRegisterCalls == 2
\* auth requests and gateway requests of one client session
MaxSessionCalls == 2
MaxSessionRequests == 1
\* login and refresh requests of the two connections of one client
MaxRotateCalls == 3
\* SSE clients and broadcasts
MaxClients == 2
MaxEmits == 2
\* calls of one debounced function
MaxDebounceCalls == 3
\* content requests in one run, after the first article's creation
MaxContentCalls == 2

(* -------------------------- program constants ------------------------- *)

JWT_ACCESS_SECRET == "access-secret"
OneSecretForBoth == "access-secret"
JWT_REFRESH_SECRET == "refresh-secret"
\* '15m' and '7d' as jsonwebtoken reads them, in seconds
JWT_ACCESS_EXPIRY == 15 * 60
DefaultRefreshExpiry == 7 * 24 * 60 * 60
\* the expiresAt offset of a stored refresh record, in milliseconds
RefreshRecordMs == 7 * 24 * 60 * 60 * 1000

VARIABLES
    now,            \* Date.now(), ms
    cfg,            \* the scenario: which handlers run, how far the clock goes
    users,          \* prisma.user rows
    refreshTokens,  \* prisma.refreshToken rows
    nextTokenId,    \* next refreshToken row id
    pc,             \* position of each auth handler
    call,           \* its request and locals
    res,            \* its response
    calls,          \* auth requests started so far
    issued,         \* history: the tokens handed out in responses, as which
                    \* kind, and when
    rotated,        \* history: refresh tokens a refresh has succeeded with
    lin,            \* history: refreshToken row id -> session lineage
    cache,          \* SimpleCache.cache: key -> {value, expiry}
    mpc,            \* position of each middleware / checkLimit invocation
    mcall,          \* its request and locals
    mres,           \* the middleware's answer
    mcalls,         \* gateway requests started so far
    win,            \* history: per key, the fixed window the requests fall in
    perm,           \* a permission check: its arguments and its answer
    articles,       \* prisma.article rows
    contentVersions, \* prisma.contentVersion rows
    tags,           \* prisma.tag rows
    nextRowId,      \* next id of a row of these three tables
    cpc,            \* position of each content request
    ccall,          \* its headers, parameters, body and locals
    cres,           \* its response
    ccalls,         \* content requests started so far
    revisions,      \* history: title and content of each article at each version
    updatesDone,    \* history: the PUT requests answered 200, per article
    listeners,      \* EventEmitter.listeners, in insertion order
    streams,        \* per SSE client: its request, its stream controller and what
                    \* emit enqueued on it, its interval
    emitted,        \* history: per emit, the message, the listeners then, the calls
    timeout,        \* the timeout variable of one debounce closure; 0 is null
    timers,         \* the host's pending timers: id, due time, the args later closes over
    dlog            \* history: the calls of the debounced function and the runs of func

authVars == <<users, refreshTokens, nextTokenId, pc, call, res, calls,
              issued, rotated, lin>>

rateVars == <<cache, mpc, mcall, mres, mcalls, win>>

contentVars == <<articles, contentVersions, tags, nextRowId, cpc, ccall, cres, ccalls,
                 revisions, updatesDone>>

realtimeVars == <<listeners, streams, emitted>>

debounceVars == <<timeout, timers, dlog>>

Procs == 1 .. NumProcs

\* process.env.JWT_REFRESH_EXPIRY || '7d': the scenario may set the variable
JWT_REFRESH_EXPIRY == cfg.refreshExpiry

IssuedTokens == {i.token : i \in issued}

(* ------------------------------ inputs -------------------------------- *)

Emails == {"alice@example.com", "bob@example.com"}
GoodPassword == "Passw0rd!"
Passwords == {GoodPassword, "Wr0ngPass"}
\* "" is an absent JSON field
Absent == ""
\* what a register body may carry besides
MalformedEmails ==
    {Absent, "alice.example.com", "al ice@example.com", "a@b@example.com", "alice@example"}
WeakPasswords == {Absent, "Pass0rd", "passw0rd!", "PASSW0RD!", "Password!"}
GoodName == "Alice"
ShortNames == {Absent, "A", " A ", "  "}
RolesGiven == {Absent, "editor", "Editor", "superuser"}

(* ------------------------------ strings ------------------------------- *)

\* a JavaScript string is a TLA+ string; its characters are one-letter strings
UpperLetters == "ABCDEFGHIJKLMNOPQRSTUVWXYZ"
LowerLetters == "abcdefghijklmnopqrstuvwxyz"
DigitChars == "0123456789"
\* the whitespace the inputs contain
SpaceChars == " "

CharAt(s, i) == SubSeq(s, i, i)

CharsOf(s) == {CharAt(s, i) : i \in 1 .. Len(s)}

\* the character classes [A-Z], [a-z], [0-9] and \s
UpperClass == CharsOf(UpperLetters)
LowerClass == CharsOf(LowerLetters)
DigitClass == CharsOf(DigitChars)
SpaceClass == CharsOf(SpaceChars)

\* /[class]/.test(s)
HasCharOf(class, s) == \E i \in 1 .. Len(s) : CharAt(s, i) \in class

\* where character c stands in s
PositionsOf(c, s) == {i \in 1 .. Len(s) : CharAt(s, i) = c}

\* the letters with their upper-case and their lower-case partners
UpperOf ==
    [c \in LowerClass |->
        CharAt(UpperLetters, CHOOSE i \in 1 .. Len(LowerLetters) : CharAt(LowerLetters, i) = c)]

LowerOf ==
    [c \in UpperClass |->
        CharAt(LowerLetters, CHOOSE i \in 1 .. Len(UpperLetters) : CharAt(UpperLetters, i) = c)]

\* s with every character that has a partner replaced by it
RECURSIVE MapChars(_, _)
MapChars(s, partner) ==
    IF s = "" THEN ""
    ELSE LET c == CharAt(s, 1)
         IN  (IF c \in DOMAIN partner THEN partner[c] ELSE c) \o
             MapChars(SubSeq(s, 2, Len(s)), partner)

\* s.startsWith(prefix), s.endsWith(suffix), s.slice(0, -n), s.trim()
startsWith(s, prefix) ==
    /\ Len(prefix) <= Len(s)
    /\ SubSeq(s, 1, Len(prefix)) = prefix

endsWith(s, suffix) ==
    /\ Len(suffix) <= Len(s)
    /\ SubSeq(s, Len(s) - Len(suffix) + 1, Len(s)) = suffix

SliceEnd(s, n) == SubSeq(s, 1, Len(s) - n)

RECURSIVE trim(_)
trim(s) ==
    IF s = "" THEN ""
    ELSE IF CharAt(s, 1) \in SpaceClass THEN trim(SubSeq(s, 2, Len(s)))
    ELSE IF CharAt(s, Len(s)) \in SpaceClass THEN trim(SubSeq(s, 1, Len(s) - 1))
    ELSE s

(* --------------------------- lib/auth.ts ------------------------------ *)

ToUpperCase(s) == MapChars(s, UpperOf)

ToLowerCase(s) == MapChars(s, LowerOf)

\* bcrypt: the hash verifies exactly the password it was made from
hashPassword(password) == <<"bcrypt", password>>

verifyPassword(password, hash) == hash = <<"bcrypt", password>>

TokenPayload(user) ==
    [userId |-> user.id, email |-> user.email, role |-> ToLowerCase(user.role)]

\* jwt.sign(payload, secret, {expiresIn}): iat is the clock second
Sign(payload, secret, expiresIn) ==
    [secret |-> secret, userId |-> payload.userId, email |-> payload.email,
     role |-> payload.role, iat |-> now \div 1000,
     exp |-> (now \div 1000) + expiresIn]

GenerateAccessTokenWithRefreshSecret(payload) ==
    Sign(payload, JWT_REFRESH_SECRET, JWT_ACCESS_EXPIRY)

generateAccessToken(payload) == Sign(payload, JWT_ACCESS_SECRET, JWT_ACCESS_EXPIRY)

generateRefreshToken(payload) == Sign(payload, JWT_REFRESH_SECRET, JWT_REFRESH_EXPIRY)

VerifiesSignatureOnly(token, secret) == token.secret = secret

\* jwt.verify(token, secret) does not throw
Verifies(token, secret) ==
    /\ token.secret = secret
    /\ (now \div 1000) < token.exp

verifyAccessToken(token) == Verifies(token, JWT_ACCESS_SECRET)

verifyRefreshToken(token) == Verifies(token, JWT_REFRESH_SECRET)

\* the lookup without toLowerCase
GetPermissionsCaseSensitive(role) ==
    CASE role = "admin" -> <<"*">>
      [] role = "editor" -> <<"content:*", "media:*", "comments:moderate">>
      [] role = "author" -> <<"content:create", "content:edit:own", "media:upload">>
      [] role = "viewer" -> <<"content:read", "comments:create">>
      [] OTHER -> <<>>

getPermissions(role) ==
    CASE ToLowerCase(role) = "admin" -> <<"*">>
      [] ToLowerCase(role) = "editor" -> <<"content:*", "media:*", "comments:moderate">>
      [] ToLowerCase(role) = "author" -> <<"content:create", "content:edit:own", "media:upload">>
      [] ToLowerCase(role) = "viewer" -> <<"content:read", "comments:create">>
      [] OTHER -> <<>>

(* ------------------- packages/shared: roles, validation --------------- *)

UserRole == {"admin", "editor", "author", "viewer"}

\* the table hasPermission reads; [] for a role that is not a key
rolePermissions(userRole) ==
    CASE userRole = "admin" -> <<"*">>
      [] userRole = "editor" -> <<"content:*", "media:*", "comments:moderate">>
      [] userRole = "author" -> <<"content:create", "content:edit:own", "media:upload">>
      [] userRole = "viewer" -> <<"content:read", "comments:create">>
      [] OTHER -> <<>>

\* the shared constant of packages/shared/src/types
permissions ==
    [role \in UserRole |->
        CASE role = "admin" -> <<"*">>
          [] role = "editor" -> <<"content:*", "media:*", "comments:moderate">>
          [] role = "author" -> <<"content:create", "content:edit:own", "media:upload">>
          [] role = "viewer" -> <<"content:read", "comments:create">>]

Includes(array, x) == \E i \in DOMAIN array : array[i] = x

PermissionMatchesExactly(p, permission) == p = permission

\* the callback of rolePermissions.some
PermissionMatches(p, permission) ==
    IF endsWith(p, ":*")
    THEN startsWith(permission, SliceEnd(p, 2))
    ELSE p = permission

\* the check without the '*' short cut
HasPermissionNoSuperuser(userRole, permission) ==
    \E i \in DOMAIN rolePermissions(userRole) :
        PermissionMatches(rolePermissions(userRole)[i], permission)

hasPermission(userRole, permission) ==
    IF Includes(rolePermissions(userRole), "*") THEN TRUE
    ELSE \E i \in DOMAIN rolePermissions(userRole) :
            PermissionMatches(rolePermissions(userRole)[i], permission)

\* /^[^\s@]+@[^\s@]+\.[^\s@]+$/ : no whitespace, one "@" after at least one
\* character, and behind it a "." with a character on each side
emailRegexTest(email) ==
    /\ ~HasCharOf(SpaceClass, email)
    /\ Cardinality(PositionsOf("@", email)) = 1
    /\ \E k \in PositionsOf("@", email) :
          /\ k >= 2
          /\ \E j \in PositionsOf(".", email) : k + 2 <= j /\ j <= Len(email) - 1

ValidationResult(errors) == [valid |-> errors = <<>>, errors |-> errors]

validateEmail(email) ==
    ValidationResult(
        IF email = Absent THEN <<"Email is required">>
        ELSE IF ~emailRegexTest(email) THEN <<"Invalid email format">>
        ELSE <<>>)

validatePassword(password) ==
    ValidationResult(
        IF password = Absent THEN <<"Password is required">>
        ELSE (IF Len(password) < 8
              THEN <<"Password must be at least 8 characters long">> ELSE <<>>) \o
             (IF ~HasCharOf(UpperClass, password)
              THEN <<"Password must contain at least one uppercase letter">> ELSE <<>>) \o
             (IF ~HasCharOf(LowerClass, password)
              THEN <<"Password must contain at least one lowercase letter">> ELSE <<>>) \o
             (IF ~HasCharOf(DigitClass, password)
              THEN <<"Password must contain at least one number">> ELSE <<>>))

NameAlwaysValid(name) == FALSE

\* !data.name || data.name.trim().length < 2
NameTooShort(name) == name = Absent \/ Len(trim(name)) < 2

validateRegistration(data) ==
    ValidationResult(
        validateEmail(data.email).errors \o
        validatePassword(data.password).errors \o
        (IF NameTooShort(data.name)
         THEN <<"Name must be at least 2 characters long">> ELSE <<>>))

\* the errors array as the JSON body carries it
RECURSIVE JoinErrors(_)
JoinErrors(errors) ==
    IF errors = <<>> THEN ""
    ELSE IF Len(errors) = 1 THEN errors[1]
    ELSE errors[1] \o "," \o JoinErrors(Tail(errors))

\* a token no secret of the service signed, and the absent body field
ForgedToken ==
    [secret |-> "forged", userId |-> 0, email |-> Absent, role |-> "admin",
     iat |-> 0, exp |-> JWT_REFRESH_EXPIRY]

NoToken ==
    [secret |-> Absent, userId |-> 0, email |-> Absent, role |-> Absent,
     iat |-> 0, exp |-> 0]

(* ----------------------------- responses ------------------------------ *)

\* the JSON body without its timestamp, and the status
ErrorResponse(status, error, message, details) ==
    [status |-> status, error |-> error, message |-> message,
     details |-> details, data |-> <<>>]

AuthResponse(status, user, accessToken, refreshToken) ==
    [status |-> status, error |-> Absent, message |-> Absent, details |-> Absent,
     data |-> << [user |-> [id |-> user.id, email |-> user.email,
                            role |-> ToLowerCase(user.role),
                            permissions |-> getPermissions(ToLowerCase(user.role))],
                  accessToken |-> accessToken,
                  refreshToken |-> refreshToken] >>]

NoResponse == ErrorResponse(0, Absent, Absent, Absent)

\* the messages of the two Prisma errors the routes can meet
P2002 == "Unique constraint failed"
P2025 == "Record to delete does not exist"
\* of a query sent while the database is down
StoreUnreachable == "Can't reach database server"

\* and of the rejection of a value that is not of the column's enum
InvalidEnumValue == "Invalid value for argument role. Expected Role."

LoginBadRequest == ErrorResponse(400, "Bad Request", "Email and password are required", Absent)

LoginNoUserNamed == ErrorResponse(404, "Not Found", "User not found", Absent)

LoginNoUser == ErrorResponse(401, "Unauthorized", "Invalid credentials", Absent)

LoginBadPassword == ErrorResponse(401, "Unauthorized", "Invalid credentials", Absent)

LoginFailed(details) == ErrorResponse(500, "Internal Server Error", "Failed to login", details)

RefreshBadRequest == ErrorResponse(400, "Bad Request", "Refresh token is required", Absent)

RefreshInvalidToken == ErrorResponse(401, "Unauthorized", "Invalid or expired refresh token", Absent)

RefreshNotStoredNamed == ErrorResponse(404, "Not Found", "Refresh token not found", Absent)

RefreshNotStored == ErrorResponse(401, "Unauthorized", "Invalid or expired refresh token", Absent)

RefreshFailed(details) ==
    ErrorResponse(500, "Internal Server Error", "Failed to refresh token", details)

RegisterInvalid(errors) ==
    ErrorResponse(400, "Validation Error", "Invalid input data", JoinErrors(errors))

RegisterEmailTaken ==
    ErrorResponse(409, "Conflict", "User with this email already exists", Absent)

RegisterFailed(details) ==
    ErrorResponse(500, "Internal Server Error", "Failed to register user", details)

(* ------------------------------ the store ----------------------------- *)

UserByEmail(email) == {u \in users : u.email = email}

UserById(id) == CHOOSE u \in users : u.id = id

TokenRows(token) == {r \in refreshTokens : r.token = token}

RowById(id) == {r \in refreshTokens : r.id = id}

NoRow == [id |-> 0, token |-> NoToken, userId |-> 0, expiresAt |-> 0]

NoCall ==
    [op |-> "none", email |-> Absent, password |-> Absent, name |-> Absent,
     role |-> Absent, roleGiven |-> Absent, storage |-> FALSE, unused |-> FALSE,
     at |-> 0, seen |-> NoRow, seenAt |-> 0,
     token |-> NoToken, stored |-> NoRow, accessToken |-> NoToken,
     refreshToken |-> NoToken, expiresAt |-> 0, userId |-> 0,
     known |-> FALSE, fresh |-> FALSE, reuse |-> FALSE, lostRace |-> FALSE]

\* a refresh-token row that a reader accepts now
ValidRow(r) == ~(r.expiresAt < now)

Finish(p, response) ==
    /\ pc' = [pc EXCEPT ![p] = "done"]
    /\ res' = [res EXCEPT ![p] = response]
    /\ issued' = issued \cup
         {[kind |-> "access", token |-> response.data[i].accessToken, at |-> now] :
             i \in DOMAIN response.data} \cup
         {[kind |-> "refresh", token |-> response.data[i].refreshToken, at |-> now] :
             i \in DOMAIN response.data}

Begin(p) ==
    /\ p \in cfg.procs
    /\ pc[p] \in {"idle", "done"}
    /\ calls < cfg.cap
    /\ calls' = calls + 1

(* ------------------- POST /api/auth/register -------------------------- *)

\* line 10: const { ..., role = 'viewer' } = body
DefaultRoleAdmin(role) == IF role = Absent THEN "admin" ELSE role

DefaultRole(role) == IF role = Absent THEN "viewer" ELSE role

\* the values of the role column: the closed role set, as the store holds it
RoleEnum == {ToUpperCase(r) : r \in UserRole}

\* lines 9-51: the body is read and validated; then user.findUnique answers
\* and the password is hashed
RegisterFind(p, email, password, name, role) ==
    /\ Begin(p)
    /\ LET validation == validateRegistration([email |-> email, password |-> password,
                                                name |-> name])
           c == [NoCall EXCEPT !.op = "register", !.email = email,
                               !.password = password, !.name = name,
                               !.roleGiven = role, !.role = DefaultRole(role)]
           asked == [c EXCEPT !.storage = TRUE, !.unused = UserByEmail(email) = {}]
       IN  IF ~validation.valid
           THEN /\ Finish(p, RegisterInvalid(validation.errors))
                /\ call' = [call EXCEPT ![p] = c]
           ELSE IF UserByEmail(email) # {}
           THEN /\ Finish(p, RegisterEmailTaken)
                /\ call' = [call EXCEPT ![p] = asked]
           ELSE /\ pc' = [pc EXCEPT ![p] = "reg_create"]
                /\ call' = [call EXCEPT ![p] = asked]
                /\ UNCHANGED <<res, issued>>
    /\ UNCHANGED <<rateVars, perm, contentVars, now, cfg, realtimeVars, debounceVars, users, refreshTokens, nextTokenId, rotated, lin>>

\* lines 53-88: user.create answers (role is of the enum, email is unique),
\* the tokens are signed and refreshToken.create is called
RegisterCreate(p) ==
    /\ pc[p] = "reg_create"
    /\ IF ToUpperCase(call[p].role) \notin RoleEnum
       THEN /\ Finish(p, RegisterFailed(InvalidEnumValue))
            /\ UNCHANGED <<users, call>>
       ELSE IF UserByEmail(call[p].email) # {}
       THEN /\ Finish(p, RegisterFailed(P2002))
            /\ call' = [call EXCEPT ![p].lostRace = TRUE]
            /\ UNCHANGED users
       ELSE LET user == [id |-> Cardinality(users) + 1,
                         email |-> call[p].email,
                         password |-> hashPassword(call[p].password),
                         name |-> call[p].name,
                         role |-> ToUpperCase(call[p].role)]
            IN  /\ users' = users \cup {user}
                /\ call' = [call EXCEPT ![p].userId = user.id,
                       ![p].accessToken = generateAccessToken(TokenPayload(user)),
                       ![p].refreshToken = generateRefreshToken(TokenPayload(user)),
                       ![p].expiresAt = now + RefreshRecordMs]
                /\ pc' = [pc EXCEPT ![p] = "reg_store"]
                /\ UNCHANGED <<res, issued>>
    /\ UNCHANGED <<rateVars, perm, contentVars, now, cfg, realtimeVars, debounceVars, refreshTokens, nextTokenId, calls, rotated, lin>>

\* refreshToken.create answers (token is unique): the new row, or P2002
StoreToken(p, lineage, failed, response) ==
    IF TokenRows(call[p].refreshToken) # {}
    THEN /\ Finish(p, failed)
         /\ UNCHANGED <<refreshTokens, nextTokenId, lin>>
    ELSE /\ refreshTokens' = refreshTokens \cup
              {[id |-> nextTokenId, token |-> call[p].refreshToken,
                userId |-> call[p].userId, expiresAt |-> call[p].expiresAt]}
         /\ nextTokenId' = nextTokenId + 1
         /\ lin' = lin @@ (nextTokenId :> IF lineage = 0 THEN nextTokenId ELSE lineage)
         /\ Finish(p, response)

\* lines 82-108
RegisterStore(p) ==
    /\ pc[p] = "reg_store"
    /\ StoreToken(p, 0, RegisterFailed(P2002),
                  AuthResponse(201, UserById(call[p].userId),
                               call[p].accessToken, call[p].refreshToken))
    /\ UNCHANGED <<rateVars, perm, contentVars, now, cfg, realtimeVars, debounceVars, users, call, calls, rotated>>

\* lines 82-88 and 109-123: refreshToken.create rejects because the database
\* cannot be reached; the catch block answers 500
RegisterStoreRejected(p) ==
    /\ pc[p] = "reg_store"
    /\ Finish(p, RegisterFailed(StoreUnreachable))
    /\ UNCHANGED <<rateVars, perm, contentVars, now, cfg, realtimeVars, debounceVars, users, refreshTokens, nextTokenId,
                   call, calls, rotated, lin>>

(* --------------------- POST /api/auth/login --------------------------- *)

\* lines 8-81: user.findUnique answers, the password is compared, the tokens
\* are signed and refreshToken.create is called
LoginFind(p, email, password) ==
    /\ Begin(p)
    /\ LET found == UserByEmail(email)
           c == [NoCall EXCEPT !.op = "login", !.email = email,
                               !.password = password, !.known = found # {},
                               !.storage = email # Absent /\ password # Absent]
       IN  IF email = Absent \/ password = Absent
           THEN /\ Finish(p, LoginBadRequest)
                /\ call' = [call EXCEPT ![p] = c]
           ELSE IF found = {}
           THEN /\ Finish(p, LoginNoUser)
                /\ call' = [call EXCEPT ![p] = c]
           ELSE LET user == CHOOSE u \in found : TRUE
                IN  IF ~verifyPassword(password, user.password)
                    THEN /\ Finish(p, LoginBadPassword)
                         /\ call' = [call EXCEPT ![p] = c]
                    ELSE /\ call' = [call EXCEPT ![p] =
                               [c EXCEPT !.userId = user.id,
                                  !.accessToken = generateAccessToken(TokenPayload(user)),
                                  !.refreshToken = generateRefreshToken(TokenPayload(user)),
                                  !.expiresAt = now + RefreshRecordMs]]
                         /\ pc' = [pc EXCEPT ![p] = "login_store"]
                         /\ UNCHANGED <<res, issued>>
    /\ UNCHANGED <<rateVars, perm, contentVars, now, cfg, realtimeVars, debounceVars, users, refreshTokens, nextTokenId, rotated, lin>>

\* lines 75-101
LoginStore(p) ==
    /\ pc[p] = "login_store"
    /\ StoreToken(p, 0, LoginFailed(P2002),
                  AuthResponse(200, UserById(call[p].userId),
                               call[p].accessToken, call[p].refreshToken))
    /\ UNCHANGED <<rateVars, perm, contentVars, now, cfg, realtimeVars, debounceVars, users, call, calls, rotated>>

(* -------------------- POST /api/auth/refresh -------------------------- *)

\* lines 127-168: the body is read, the token verified against the refresh
\* secret and the clock, and refreshToken.findUnique is called
RefreshStart(p, token) ==
    /\ Begin(p)
    /\ LET c == [NoCall EXCEPT !.op = "refresh", !.token = token, !.at = now,
                    !.fresh = /\ token \notin rotated
                              /\ \E r \in TokenRows(token) : ValidRow(r),
                    !.reuse = token \in rotated]
       IN  /\ call' = [call EXCEPT ![p] = c]
           /\ IF token = NoToken
              THEN Finish(p, RefreshBadRequest)
              ELSE IF ~verifyRefreshToken(token)
              THEN Finish(p, RefreshInvalidToken)
              ELSE /\ pc' = [pc EXCEPT ![p] = "ref_find"]
                   /\ UNCHANGED <<res, issued>>
    /\ UNCHANGED <<rateVars, perm, contentVars, now, cfg, realtimeVars, debounceVars, users, refreshTokens, nextTokenId, rotated, lin>>

\* the lookup that prunes a record it finds expired
RefreshFindPruning(p) ==
    /\ pc[p] = "ref_find"
    /\ LET found == TokenRows(call[p].token)
       IN  IF found = {} \/ (\E r \in found : r.expiresAt < now)
           THEN /\ Finish(p, RefreshNotStored)
                /\ refreshTokens' = refreshTokens \ found
                /\ call' = [call EXCEPT ![p].storage = TRUE, ![p].seenAt = now,
                       ![p].seen = IF found = {} THEN NoRow ELSE CHOOSE r \in found : TRUE]
           ELSE LET storedToken == CHOOSE r \in found : TRUE
                    user == UserById(storedToken.userId)
                IN  /\ call' = [call EXCEPT ![p].stored = storedToken,
                           ![p].storage = TRUE,
                           ![p].seen = storedToken, ![p].seenAt = now,
                           ![p].userId = user.id,
                           ![p].accessToken = generateAccessToken(TokenPayload(user)),
                           ![p].refreshToken = generateRefreshToken(TokenPayload(user))]
                    /\ pc' = [pc EXCEPT ![p] = "ref_delete"]
                    /\ UNCHANGED <<res, issued, refreshTokens>>
    /\ UNCHANGED <<rateVars, perm, contentVars, now, cfg, realtimeVars, debounceVars, users, nextTokenId, calls, rotated, lin>>

\* lines 165-198: findUnique answers with the row and its user; the row is
\* checked against the clock, the new pair is signed and delete is called
RefreshFind(p) ==
    /\ pc[p] = "ref_find"
    /\ LET found == TokenRows(call[p].token)
       IN  IF found = {} \/ (\E r \in found : r.expiresAt < now)
           THEN /\ Finish(p, RefreshNotStored)
                /\ call' = [call EXCEPT ![p].storage = TRUE, ![p].seenAt = now,
                       ![p].seen = IF found = {} THEN NoRow ELSE CHOOSE r \in found : TRUE]
           ELSE LET storedToken == CHOOSE r \in found : TRUE
                    user == UserById(storedToken.userId)
                IN  /\ call' = [call EXCEPT ![p].stored = storedToken,
                           ![p].storage = TRUE,
                           ![p].seen = storedToken, ![p].seenAt = now,
                           ![p].userId = user.id,
                           ![p].accessToken = generateAccessToken(TokenPayload(user)),
                           ![p].refreshToken = generateRefreshToken(TokenPayload(user))]
                    /\ pc' = [pc EXCEPT ![p] = "ref_delete"]
                    /\ UNCHANGED <<res, issued>>
    /\ UNCHANGED <<rateVars, perm, contentVars, now, cfg, realtimeVars, debounceVars, users, refreshTokens, nextTokenId, calls, rotated, lin>>

\* the delete that does not throw when the row is gone (deleteMany)
RefreshDeleteMany(p) ==
    /\ pc[p] = "ref_delete"
    /\ refreshTokens' = refreshTokens \ RowById(call[p].stored.id)
    /\ call' = [call EXCEPT ![p].expiresAt = now + RefreshRecordMs]
    /\ pc' = [pc EXCEPT ![p] = "ref_create"]
    /\ UNCHANGED <<res, issued>>
    /\ UNCHANGED <<rateVars, perm, contentVars, now, cfg, realtimeVars, debounceVars, users, nextTokenId, calls, rotated, lin>>

\* lines 196-206: delete({where: {id}}) answers, or throws P2025 when the row
\* is gone; then create is called with an expiresAt read from the clock
RefreshDelete(p) ==
    /\ pc[p] = "ref_delete"
    /\ IF RowById(call[p].stored.id) = {}
       THEN /\ Finish(p, RefreshFailed(P2025))
            /\ call' = [call EXCEPT ![p].lostRace = TRUE]
            /\ UNCHANGED refreshTokens
       ELSE /\ refreshTokens' = refreshTokens \ RowById(call[p].stored.id)
            /\ call' = [call EXCEPT ![p].expiresAt = now + RefreshRecordMs]
            /\ pc' = [pc EXCEPT ![p] = "ref_create"]
            /\ UNCHANGED <<res, issued>>
    /\ UNCHANGED <<rateVars, perm, contentVars, now, cfg, realtimeVars, debounceVars, users, nextTokenId, calls, rotated, lin>>

\* lines 200-226
RefreshCreate(p) ==
    /\ pc[p] = "ref_create"
    /\ StoreToken(p, lin[call[p].stored.id], RefreshFailed(P2002),
                  AuthResponse(200, UserById(call[p].userId),
                               call[p].accessToken, call[p].refreshToken))
    /\ rotated' = IF TokenRows(call[p].refreshToken) # {}
                  THEN rotated ELSE rotated \cup {call[p].token}
    /\ UNCHANGED <<rateVars, perm, contentVars, now, cfg, realtimeVars, debounceVars, users, call, calls>>

(* ======================= Part II: request gating ====================== *)

(* ---------------------------- SimpleCache ----------------------------- *)

\* a cached value is a string of digits; get answers null for no value
NumToString(n) == <<"string", n>>

ParseInt(str) == str[2]

Null == <<"null", 0>>

NoItem == [present |-> FALSE, value |-> Null, expiry |-> 0]

\* get(key): the value, or null when the key is absent or past its expiry
CacheGet(key) ==
    IF ~cache[key].present THEN Null
    ELSE IF now > cache[key].expiry THEN Null
    ELSE cache[key].value

\* get(key) deletes an entry it finds expired
CacheAfterGet(key) ==
    IF cache[key].present /\ now > cache[key].expiry
    THEN [cache EXCEPT ![key] = NoItem]
    ELSE cache

\* set(key, value, expirySeconds?): 0 stands for no expirySeconds
CacheSet(key, value, expirySeconds) ==
    [cache EXCEPT ![key] =
        [present |-> TRUE, value |-> value,
         expiry |-> IF expirySeconds # 0
                    THEN now + expirySeconds * 1000
                    ELSE now + 3600 * 1000]]

\* incr(key) after its await on get: the value it writes
IncrNewValue(current) ==
    NumToString(ParseInt(IF current = Null THEN NumToString(0) ELSE current) + 1)

\* expire(key, seconds)
CacheExpire(key, seconds) ==
    IF cache[key].present
    THEN [cache EXCEPT ![key].expiry = now + seconds * 1000]
    ELSE cache

(* ---------------------------- RateLimiter ----------------------------- *)

BucketTypes == {"anonymous", "authenticated", "api_key"}

LimitAnonymous == 100
LimitAuthenticated == 1000
LimitApiKey == 10000

limits(type) ==
    CASE type = "anonymous" -> LimitAnonymous
      [] type = "authenticated" -> LimitAuthenticated
      [] type = "api_key" -> LimitApiKey

window == 3600

Identifiers == {"203.0.113.7"}

RateKey(type, identifier) == <<"rate_limit", type, identifier>>

RateKeys == {RateKey(t, i) : t \in BucketTypes, i \in Identifiers}

AllowedStrict(current, limit) == current < limit

Allowed(current, limit) == current <= limit

Max(a, b) == IF a >= b THEN a ELSE b

\* the object checkLimit returns
LimitResult(current, limit) ==
    [allowed |-> Allowed(current, limit),
     remaining |-> Max(0, limit - current),
     resetAt |-> now + window * 1000]

NoLimitResult == [allowed |-> FALSE, remaining |-> 0, resetAt |-> 0]

(* ----------------------------- middleware ----------------------------- *)

PublicAuthPaths == {"/api/auth/login", "/api/auth/register", "/api/auth/refresh"}

Paths ==
    PublicAuthPaths \cup
    {"/_next/data/index.json", "/static/logo.png", "/api/content", "/about"}

\* path.startsWith(prefix)
StartsWith(path, prefix) == startsWith(path, prefix)

\* jwt.sign at clock second iat
SignedAt(iat, payload, secret, expiresIn) ==
    [secret |-> secret, userId |-> payload.userId, email |-> payload.email,
     role |-> payload.role, iat |-> iat, exp |-> iat + expiresIn]

ClientPayload == [userId |-> 1, email |-> "alice@example.com", role |-> "viewer"]

\* tokens a client may hold when the clock reads 0
LiveAccessToken == SignedAt(0, ClientPayload, JWT_ACCESS_SECRET, JWT_ACCESS_EXPIRY)

ExpiredAccessToken ==
    SignedAt(0 - JWT_ACCESS_EXPIRY, ClientPayload, JWT_ACCESS_SECRET, JWT_ACCESS_EXPIRY)

LiveRefreshToken == SignedAt(0, ClientPayload, JWT_REFRESH_SECRET, JWT_REFRESH_EXPIRY)

\* the Authorization header: <<scheme, token>> is "scheme token"; <<>> is none
NoHeader == <<>>

AuthHeaders ==
    {NoHeader, <<"Basic", LiveAccessToken>>} \cup
    {<<"Bearer", t>> : t \in {LiveAccessToken, ExpiredAccessToken,
                              LiveRefreshToken, ForgedToken, NoToken}}

ExtractAnyScheme(authHeader) ==
    IF authHeader = NoHeader THEN NoToken ELSE authHeader[2]

\* extractToken(authHeader): NoToken stands for null and for ''
extractToken(authHeader) ==
    IF authHeader = NoHeader \/ authHeader[1] # "Bearer"
    THEN NoToken
    ELSE authHeader[2]

\* the x-user-* headers of a request
NoUserHeaders == [id |-> 0, email |-> Absent, role |-> Absent]

ForgedUserHeaders == [id |-> 99, email |-> "root@example.com", role |-> "admin"]

UserHeaders(payload) ==
    [id |-> payload.userId, email |-> payload.email, role |-> payload.role]

\* what the middleware answers: NextResponse.next (with the headers the
\* handler will see) or a JSON error
NextResponse(headers) ==
    [next |-> TRUE, status |-> 0, error |-> Absent, message |-> Absent,
     details |-> <<>>, headers |-> headers]

JsonResponse(status, error, message, details) ==
    [next |-> FALSE, status |-> status, error |-> error, message |-> message,
     details |-> details, headers |-> NoUserHeaders]

NoMwResponse == JsonResponse(0, Absent, Absent, <<>>)

TooManyRequests(rateLimit) ==
    JsonResponse(429, "Too Many Requests", "Rate limit exceeded",
                 << [remaining |-> rateLimit.remaining, resetAt |-> rateLimit.resetAt] >>)

NoTokenProvided ==
    JsonResponse(401, "Unauthorized", "No authentication token provided", <<>>)

InvalidToken == JsonResponse(401, "Unauthorized", "Invalid or expired token", <<>>)

NoMCall ==
    [kind |-> "none", type |-> "anonymous", identifier |-> Absent,
     path |-> Absent, authorization |-> NoHeader, xuser |-> NoUserHeaders,
     current |-> Null, count |-> 0, rateLimit |-> NoLimitResult,
     limited |-> FALSE, k |-> 0, wexp |-> 0, at |-> 0]

(* the fixed window a request falls in, told from the arrival times alone: *)
(* a window opens with the first request after the previous one has ended  *)
(* and lasts HourMs                                                        *)
HourMs == 60 * 60 * 1000

NoWindow == [open |-> FALSE, exp |-> 0, k |-> 0, allowed |-> 0]

WindowAtArrival(key) ==
    IF ~win[key].open \/ now > win[key].exp
    THEN [open |-> TRUE, exp |-> now + HourMs, k |-> 1, allowed |-> 0]
    ELSE [win[key] EXCEPT !.k = @ + 1]

MBegin(p) ==
    /\ p \in cfg.procs
    /\ mpc[p] \in {"idle", "done"}
    /\ mcalls < cfg.mcap
    /\ mcalls' = mcalls + 1

\* checkLimit lines 153-157 and incr line 123: up to the await on get
IncrGet(p, c, key) ==
    /\ cache' = CacheAfterGet(key)
    /\ win' = [win EXCEPT ![key] = WindowAtArrival(key)]
    /\ mcall' = [mcall EXCEPT ![p] =
          [c EXCEPT !.current = CacheGet(key), !.limited = TRUE,
                    !.k = WindowAtArrival(key).k, !.wexp = WindowAtArrival(key).exp]]
    /\ mpc' = [mpc EXCEPT ![p] = "incr_set"]
    /\ UNCHANGED mres

\* rateLimiter.checkLimit(identifier, type) called on its own
CheckLimit(p, type, identifier) ==
    /\ MBegin(p)
    /\ type \in cfg.types
    /\ IncrGet(p, [NoMCall EXCEPT !.kind = "checkLimit", !.type = type,
                                  !.identifier = identifier],
               RateKey(type, identifier))
    /\ UNCHANGED <<now, cfg, realtimeVars, debounceVars, perm, contentVars, authVars>>

\* middleware lines 101-120
MiddlewareStart(p, path, authHeader, xuser, identifier) ==
    /\ MBegin(p)
    /\ LET rateLimitType == IF authHeader # NoHeader THEN "authenticated" ELSE "anonymous"
           c == [NoMCall EXCEPT !.kind = "middleware", !.path = path,
                                !.authorization = authHeader, !.xuser = xuser,
                                !.type = rateLimitType, !.identifier = identifier,
                                !.at = now]
       IN  IF \/ StartsWith(path, "/_next")
              \/ StartsWith(path, "/static")
              \/ path = "/api/auth/login"
              \/ path = "/api/auth/register"
              \/ path = "/api/auth/refresh"
           THEN /\ mcall' = [mcall EXCEPT ![p] = c]
                /\ mres' = [mres EXCEPT ![p] = NextResponse(xuser)]
                /\ mpc' = [mpc EXCEPT ![p] = "done"]
                /\ UNCHANGED <<cache, win>>
           ELSE IncrGet(p, c, RateKey(rateLimitType, identifier))
    /\ UNCHANGED <<now, cfg, realtimeVars, debounceVars, perm, contentVars, authVars>>

MKey(p) == RateKey(mcall[p].type, mcall[p].identifier)

\* incr lines 124-126: after the await on get
IncrSet(p) ==
    /\ mpc[p] = "incr_set"
    /\ LET newValue == IncrNewValue(mcall[p].current)
       IN  /\ cache' = CacheSet(MKey(p), newValue, 0)
           /\ mcall' = [mcall EXCEPT ![p].count = ParseInt(newValue)]
    /\ mpc' = [mpc EXCEPT ![p] = "incr_ret"]
    /\ UNCHANGED <<now, cfg, realtimeVars, debounceVars, perm, contentVars, authVars, mres, mcalls, win>>

\* checkLimit lines 159-161
Expire(p) ==
    /\ mpc[p] = "incr_ret"
    /\ mcall[p].count = 1
    /\ cache' = CacheExpire(MKey(p), window)
    /\ mpc' = [mpc EXCEPT ![p] = "limit_ret"]
    /\ UNCHANGED <<now, cfg, realtimeVars, debounceVars, perm, contentVars, authVars, mcall, mres, mcalls, win>>

\* checkLimit lines 163-170
CheckLimitReturn(p) ==
    /\ \/ mpc[p] = "limit_ret"
       \/ mpc[p] = "incr_ret" /\ mcall[p].count # 1
    /\ LET result == LimitResult(mcall[p].count, limits(mcall[p].type))
       IN  /\ mcall' = [mcall EXCEPT ![p].rateLimit = result]
           /\ win' = [win EXCEPT ![MKey(p)].allowed =
                        IF result.allowed /\ win[MKey(p)].exp = mcall[p].wexp
                        THEN @ + 1 ELSE @]
    /\ mpc' = [mpc EXCEPT ![p] =
                 IF mcall[p].kind = "middleware" THEN "mw_auth" ELSE "done"]
    /\ UNCHANGED <<now, cfg, realtimeVars, debounceVars, perm, contentVars, authVars, cache, mres, mcalls>>

\* middleware lines 122-190
MiddlewareAuth(p) ==
    /\ mpc[p] = "mw_auth"
    /\ LET token == extractToken(mcall[p].authorization)
       IN  mres' = [mres EXCEPT ![p] =
             IF ~mcall[p].rateLimit.allowed
             THEN TooManyRequests(mcall[p].rateLimit)
             ELSE IF ~StartsWith(mcall[p].path, "/api")
             THEN NextResponse(mcall[p].xuser)
             ELSE IF token = NoToken
             THEN NoTokenProvided
             ELSE IF verifyAccessToken(token)
             THEN NextResponse(UserHeaders(token))
             ELSE InvalidToken]
    /\ mpc' = [mpc EXCEPT ![p] = "done"]
    /\ UNCHANGED <<now, cfg, realtimeVars, debounceVars, perm, contentVars, authVars, cache, mcall, mcalls, win>>

(* ========================= Part III: content ========================== *)

(* ------------------- packages/shared: slugify, articles --------------- *)

\* \w, and what slugify keeps and what it turns into hyphens
WordClass == LowerClass \cup UpperClass \cup DigitClass \cup {"_"}
SlugKeptClass == WordClass \cup SpaceClass \cup {"-"}
SeparatorClass == SpaceClass \cup {"_", "-"}

\* s.replace(/[^class]/g, '')
RECURSIVE KeepChars(_, _)
KeepChars(s, class) ==
    IF s = "" THEN ""
    ELSE (IF CharAt(s, 1) \in class THEN CharAt(s, 1) ELSE "") \o
         KeepChars(SubSeq(s, 2, Len(s)), class)

\* s.replace(/[class]+/g, '-')
RECURSIVE DashRuns(_, _)
DashRuns(s, class) ==
    IF s = "" THEN ""
    ELSE IF CharAt(s, 1) \notin class
    THEN CharAt(s, 1) \o DashRuns(SubSeq(s, 2, Len(s)), class)
    ELSE IF Len(s) >= 2 /\ CharAt(s, 2) \in class
    THEN DashRuns(SubSeq(s, 2, Len(s)), class)
    ELSE "-" \o DashRuns(SubSeq(s, 2, Len(s)), class)

\* s.replace(/^-+|-+$/g, '')
RECURSIVE StripDashes(_)
StripDashes(s) ==
    IF s = "" THEN ""
    ELSE IF CharAt(s, 1) = "-" THEN StripDashes(SubSeq(s, 2, Len(s)))
    ELSE IF CharAt(s, Len(s)) = "-" THEN StripDashes(SubSeq(s, 1, Len(s) - 1))
    ELSE s

slugify(text) ==
    StripDashes(DashRuns(KeepChars(trim(ToLowerCase(text)), SlugKeptClass), SeparatorClass))

validateTitle(title) ==
    ValidationResult(
        IF title = Absent \/ Len(trim(title)) = 0 THEN <<"Title is required">>
        ELSE IF Len(title) < 3 THEN <<"Title must be at least 3 characters long">>
        ELSE IF Len(title) > 200 THEN <<"Title must not exceed 200 characters">>
        ELSE <<>>)

validateContent(content) ==
    ValidationResult(
        IF content = Absent \/ Len(trim(content)) = 0 THEN <<"Content is required">>
        ELSE IF Len(content) < 10 THEN <<"Content must be at least 10 characters long">>
        ELSE <<>>)

\* the routes hand over title and content only, so data.slug is undefined
validateArticle(data) ==
    ValidationResult(validateTitle(data.title).errors \o validateContent(data.content).errors)

(* ------------------------- the content store -------------------------- *)

\* Article.version when create does not give it
ArticleVersionDefault == 1

NoArticle ==
    [id |-> 0, title |-> Absent, slug |-> Absent, content |-> Absent, status |-> Absent,
     authorId |-> 0, version |-> 0, publishedAt |-> 0, tags |-> {}, statusBy |-> Absent]

ArticleById(id) == {a \in articles : a.id = id}

ArticleBySlug(slug) == {a \in articles : a.slug = slug}

TagBySlug(slug) == {t \in tags : t.slug = slug}

\* the messages of prisma.article.update on a missing row
RecordToUpdateNotFound == "Record to update not found"

ContentResponse(status, article) ==
    [status |-> status, error |-> Absent, message |-> Absent, details |-> Absent,
     data |-> <<article>>]

NotAuthenticated == ErrorResponse(401, "Unauthorized", "User not authenticated", Absent)

ArticleInvalid(errors) ==
    ErrorResponse(400, "Validation Error", "Invalid input data", JoinErrors(errors))

ArticleNotFound == ErrorResponse(404, "Not Found", "Article not found", Absent)

EditForbidden ==
    ErrorResponse(403, "Forbidden", "You do not have permission to edit this article", Absent)

PublishForbidden ==
    ErrorResponse(403, "Forbidden", "You do not have permission to publish articles", Absent)

CreateFailed(details) ==
    ErrorResponse(500, "Internal Server Error", "Failed to create article", details)

UpdateFailed(details) ==
    ErrorResponse(500, "Internal Server Error", "Failed to update article", details)

PublishFailed(details) ==
    ErrorResponse(500, "Internal Server Error", "Failed to publish article", details)

DeleteForbidden ==
    ErrorResponse(403, "Forbidden", "You do not have permission to delete this article", Absent)

DeleteFailed(details) ==
    ErrorResponse(500, "Internal Server Error", "Failed to delete article", details)

ArticleDeleted ==
    [status |-> 200, error |-> Absent, message |-> "Article deleted successfully",
     details |-> Absent, data |-> <<>>]

\* the message of an insert or delete that a foreign key forbids
ForeignKeyFailed == "Foreign key constraint failed"

\* what the schema may say for the article of a content version: onDelete
ReferentialActions == {"Cascade", "Restrict"}

NoBody == [title |-> Absent, content |-> Absent, status |-> Absent, tags |-> <<>>]

NoContentCall ==
    [op |-> "none", headers |-> NoUserHeaders, id |-> 0, body |-> NoBody,
     baseSlug |-> Absent, slug |-> Absent, counter |-> 0,
     tagQueue |-> <<>>, tagData |-> {}, article |-> NoArticle]

ContentInit ==
    /\ articles = {}
    /\ contentVersions = {}
    /\ tags = {}
    /\ nextRowId = 1
    /\ cpc = [p \in Procs |-> "idle"]
    /\ ccall = [p \in Procs |-> NoContentCall]
    /\ cres = [p \in Procs |-> NoResponse]
    /\ ccalls = 0
    /\ revisions = {}
    /\ updatesDone = <<>>

\* a request that has answered: its locals are gone
Returned(locals) ==
    [NoContentCall EXCEPT !.op = locals.op, !.headers = locals.headers, !.id = locals.id]

ContentBegin(p) ==
    /\ p \in cfg.procs
    /\ cpc[p] \in {"idle", "done"}
    /\ ccalls < cfg.cap
    /\ ccalls' = ccalls + 1

\* the request answers before its first store call, or goes on to step next
ContentStart(p, locals, answer, next) ==
    /\ ContentBegin(p)
    /\ cres' = [cres EXCEPT ![p] = answer]
    /\ cpc' = [cpc EXCEPT ![p] = IF answer = NoResponse THEN next ELSE "done"]
    /\ ccall' = [ccall EXCEPT ![p] = IF answer = NoResponse THEN locals ELSE Returned(locals)]

ContentFinish(p, response) ==
    /\ cpc' = [cpc EXCEPT ![p] = "done"]
    /\ cres' = [cres EXCEPT ![p] = response]
    /\ ccall' = [ccall EXCEPT ![p] = Returned(ccall[p])]

\* where a request goes on when its tags are resolved
AfterTags(p) == IF ccall[p].op = "create" THEN "create_article" ELSE "update_article"

(* -------------------------- POST /api/content ------------------------- *)

\* const { ..., status = 'draft', ... } = body
StatusOrDraft(body) == IF body.status = Absent THEN "draft" ELSE body.status

\* headers, body, validation; the first slug to try is slugify(title)
CreateStart(p, headers, body) ==
    /\ ContentStart(p,
          [NoContentCall EXCEPT !.op = "create", !.headers = headers, !.body = body,
                                !.baseSlug = slugify(body.title),
                                !.slug = slugify(body.title), !.counter = 1,
                                !.tagQueue = body.tags],
          IF headers.id = 0 THEN NotAuthenticated
          ELSE IF ~validateArticle(body).valid
          THEN ArticleInvalid(validateArticle(body).errors)
          ELSE NoResponse,
          "create_slug")
    /\ UNCHANGED <<now, cfg, realtimeVars, debounceVars, perm, authVars, rateVars, articles, contentVersions, tags,
                   nextRowId, revisions, updatesDone>>

\* one turn of while (await prisma.article.findUnique({ where: { slug } }))
CreateSlug(p) ==
    /\ cpc[p] = "create_slug"
    /\ LET c == ccall[p]
       IN  IF ArticleBySlug(c.slug) # {}
           THEN /\ ccall' = [ccall EXCEPT ![p].slug = c.baseSlug \o "-" \o ToString(c.counter),
                                          ![p].counter = c.counter + 1]
                /\ cpc' = cpc
           ELSE /\ ccall' = ccall
                /\ cpc' = [cpc EXCEPT ![p] =
                      IF c.tagQueue = <<>> THEN "create_article" ELSE "tag_find"]
    /\ UNCHANGED <<now, cfg, realtimeVars, debounceVars, perm, authVars, rateVars, articles, contentVersions, tags,
                   nextRowId, cres, ccalls, revisions, updatesDone>>

\* prisma.tag.findUnique({ where: { slug: tagSlug } }) for the next tag name
TagFind(p) ==
    /\ cpc[p] = "tag_find"
    /\ LET c == ccall[p]
           existingTag == TagBySlug(slugify(Head(c.tagQueue)))
       IN  IF existingTag # {}
           THEN /\ ccall' = [ccall EXCEPT ![p].tagData = c.tagData \cup {t.id : t \in existingTag},
                                          ![p].tagQueue = Tail(c.tagQueue)]
                /\ cpc' = [cpc EXCEPT ![p] =
                      IF Tail(c.tagQueue) = <<>> THEN AfterTags(p) ELSE "tag_find"]
           ELSE /\ ccall' = ccall
                /\ cpc' = [cpc EXCEPT ![p] = "tag_create"]
    /\ UNCHANGED <<now, cfg, realtimeVars, debounceVars, perm, authVars, rateVars, articles, contentVersions, tags,
                   nextRowId, cres, ccalls, revisions, updatesDone>>

\* prisma.tag.create; the slug of a tag is unique
TagCreate(p) ==
    /\ cpc[p] = "tag_create"
    /\ LET c == ccall[p]
           tagName == Head(c.tagQueue)
       IN  IF TagBySlug(slugify(tagName)) # {}
           THEN /\ ContentFinish(p, IF c.op = "create" THEN CreateFailed(P2002)
                                    ELSE UpdateFailed(P2002))
                /\ UNCHANGED <<tags, nextRowId>>
           ELSE /\ tags' = tags \cup
                      {[id |-> nextRowId, name |-> tagName, slug |-> slugify(tagName)]}
                /\ nextRowId' = nextRowId + 1
                /\ ccall' = [ccall EXCEPT ![p].tagData = c.tagData \cup {nextRowId},
                                          ![p].tagQueue = Tail(c.tagQueue)]
                /\ cpc' = [cpc EXCEPT ![p] =
                      IF Tail(c.tagQueue) = <<>> THEN AfterTags(p) ELSE "tag_find"]
                /\ cres' = cres
    /\ UNCHANGED <<now, cfg, realtimeVars, debounceVars, perm, authVars, rateVars, articles, contentVersions,
                   ccalls, revisions, updatesDone>>

\* the article's title and content as of one of its versions
Revision(article) ==
    [contentId |-> article.id, version |-> article.version,
     title |-> article.title, content |-> article.content]

\* prisma.article.create; the slug of an article is unique
CreateArticle(p) ==
    /\ cpc[p] = "create_article"
    /\ LET c == ccall[p]
           article == [id |-> nextRowId, title |-> c.body.title, slug |-> c.slug,
                       content |-> c.body.content,
                       status |-> ToUpperCase(StatusOrDraft(c.body)),
                       authorId |-> c.headers.id, version |-> ArticleVersionDefault,
                       publishedAt |-> 0, tags |-> c.tagData,
                       statusBy |-> c.headers.role]
       IN  IF ArticleBySlug(c.slug) # {}
           THEN /\ ContentFinish(p, CreateFailed(P2002))
                /\ UNCHANGED <<articles, nextRowId, revisions, updatesDone>>
           ELSE /\ articles' = articles \cup {article}
                /\ nextRowId' = nextRowId + 1
                /\ ccall' = [ccall EXCEPT ![p].article = article]
                /\ cpc' = [cpc EXCEPT ![p] = "create_version"]
                /\ revisions' = revisions \cup {Revision(article)}
                /\ updatesDone' = updatesDone @@ (article.id :> 0)
                /\ cres' = cres
    /\ UNCHANGED <<now, cfg, realtimeVars, debounceVars, perm, authVars, rateVars, contentVersions, tags, ccalls>>

\* prisma.contentVersion.create with version: 1, and the 201; the row refers
\* to its article
CreateVersion(p) ==
    /\ cpc[p] = "create_version"
    /\ LET c == ccall[p]
       IN  IF ArticleById(c.article.id) = {}
           THEN /\ ContentFinish(p, CreateFailed(ForeignKeyFailed))
                /\ UNCHANGED <<contentVersions, nextRowId>>
           ELSE /\ contentVersions' = contentVersions \cup
                     {[id |-> nextRowId, contentId |-> c.article.id, version |-> 1,
                       title |-> c.body.title, content |-> c.body.content,
                       createdById |-> c.headers.id, publishedAt |-> 0]}
                /\ nextRowId' = nextRowId + 1
                /\ ContentFinish(p, ContentResponse(201, c.article))
    /\ UNCHANGED <<now, cfg, realtimeVars, debounceVars, perm, authVars, rateVars, articles, tags,
                   ccalls, revisions, updatesDone>>

(* ----------------------- PUT /api/content/[id] ------------------------ *)

UpdateStart(p, headers, id, body) ==
    /\ ContentStart(p,
          [NoContentCall EXCEPT !.op = "update", !.headers = headers, !.id = id,
                                !.body = body, !.tagQueue = body.tags],
          IF headers.id = 0 THEN NotAuthenticated ELSE NoResponse,
          "update_find")
    /\ UNCHANGED <<now, cfg, realtimeVars, debounceVars, perm, authVars, rateVars, articles, contentVersions, tags,
                   nextRowId, revisions, updatesDone>>

\* title || existingArticle.title
Either(given, existing) == IF given # Absent THEN given ELSE existing

\* the check that lets every author through
MayEditAsAuthor(headers, existingArticle) ==
    headers.role \in {"admin", "editor", "author"}

\* the role and owner check of PUT
MayEdit(headers, existingArticle) ==
    \/ headers.role = "admin"
    \/ headers.role = "editor"
    \/ existingArticle.authorId = headers.id

\* findUnique by id, the permission check and the validation
UpdateFind(p) ==
    /\ cpc[p] = "update_find"
    /\ LET c == ccall[p]
           found == ArticleById(c.id)
           existingArticle == CHOOSE a \in found : TRUE
           validation == validateArticle(
                            [title |-> Either(c.body.title, existingArticle.title),
                             content |-> Either(c.body.content, existingArticle.content)])
           answer == IF found = {} THEN ArticleNotFound
                     ELSE IF ~MayEdit(c.headers, existingArticle) THEN EditForbidden
                     ELSE IF (c.body.title # Absent \/ c.body.content # Absent)
                             /\ ~validation.valid
                     THEN ArticleInvalid(validation.errors)
                     ELSE NoResponse
       IN  IF answer # NoResponse
           THEN ContentFinish(p, answer)
           ELSE /\ cpc' = [cpc EXCEPT ![p] =
                      IF c.tagQueue = <<>> THEN "update_article" ELSE "tag_find"]
                /\ UNCHANGED <<cres, ccall>>
    /\ UNCHANGED <<now, cfg, realtimeVars, debounceVars, perm, authVars, rateVars, articles, contentVersions, tags,
                   nextRowId, ccalls, revisions, updatesDone>>

\* the update that keeps the version
UpdateWithoutIncrement(version) == version

\* version: { increment: 1 }
Increment(version) == version + 1

\* prisma.article.update with updateData and the version increment
UpdateArticle(p) ==
    /\ cpc[p] = "update_article"
    /\ LET c == ccall[p]
           found == ArticleById(c.id)
           old == CHOOSE a \in found : TRUE
           article == [old EXCEPT
                          !.title = Either(c.body.title, old.title),
                          !.content = Either(c.body.content, old.content),
                          !.status = IF c.body.status # Absent
                                     THEN ToUpperCase(c.body.status) ELSE old.status,
                          !.statusBy = IF c.body.status # Absent
                                       THEN c.headers.role ELSE old.statusBy,
                          !.tags = IF c.body.tags # <<>> THEN c.tagData ELSE old.tags,
                          !.version = Increment(old.version)]
       IN  IF found = {}
           THEN /\ ContentFinish(p, UpdateFailed(RecordToUpdateNotFound))
                /\ UNCHANGED <<articles, revisions>>
           ELSE /\ articles' = (articles \ found) \cup {article}
                /\ ccall' = [ccall EXCEPT ![p].article = article]
                /\ cpc' = [cpc EXCEPT ![p] = "update_version"]
                /\ revisions' = revisions \cup {Revision(article)}
                /\ cres' = cres
    /\ UNCHANGED <<now, cfg, realtimeVars, debounceVars, perm, authVars, rateVars, contentVersions, tags, nextRowId,
                   ccalls, updatesDone>>

\* prisma.contentVersion.create with the returned article, and the 200
UpdateVersion(p) ==
    /\ cpc[p] = "update_version"
    /\ LET c == ccall[p]
       IN  IF ArticleById(c.article.id) = {}
           THEN /\ ContentFinish(p, UpdateFailed(ForeignKeyFailed))
                /\ UNCHANGED <<contentVersions, nextRowId, updatesDone>>
           ELSE /\ contentVersions' = contentVersions \cup
                     {[id |-> nextRowId, contentId |-> c.article.id,
                       version |-> c.article.version,
                       title |-> c.article.title, content |-> c.article.content,
                       createdById |-> c.headers.id, publishedAt |-> 0]}
                /\ nextRowId' = nextRowId + 1
                /\ updatesDone' = [updatesDone EXCEPT ![c.article.id] = @ + 1]
                /\ ContentFinish(p, ContentResponse(200, c.article))
    /\ UNCHANGED <<now, cfg, realtimeVars, debounceVars, perm, authVars, rateVars, articles, tags, ccalls, revisions>>

(* ------------------- POST /api/content/[id]/publish ------------------- *)

\* only editors and admins can publish
MayPublish(headers) == headers.role = "admin" \/ headers.role = "editor"

PublishStart(p, headers, id) ==
    /\ ContentStart(p,
          [NoContentCall EXCEPT !.op = "publish", !.headers = headers, !.id = id],
          IF headers.id = 0 THEN NotAuthenticated
          ELSE IF ~MayPublish(headers) THEN PublishForbidden
          ELSE NoResponse,
          "publish_find")
    /\ UNCHANGED <<now, cfg, realtimeVars, debounceVars, perm, authVars, rateVars, articles, contentVersions, tags,
                   nextRowId, revisions, updatesDone>>

PublishFind(p) ==
    /\ cpc[p] = "publish_find"
    /\ IF ArticleById(ccall[p].id) = {}
       THEN ContentFinish(p, ArticleNotFound)
       ELSE /\ cpc' = [cpc EXCEPT ![p] = "publish_article"]
            /\ UNCHANGED <<cres, ccall>>
    /\ UNCHANGED <<now, cfg, realtimeVars, debounceVars, perm, authVars, rateVars, articles, contentVersions, tags,
                   nextRowId, ccalls, revisions, updatesDone>>

\* prisma.article.update with status PUBLISHED and publishedAt
PublishArticle(p) ==
    /\ cpc[p] = "publish_article"
    /\ LET c == ccall[p]
           found == ArticleById(c.id)
           old == CHOOSE a \in found : TRUE
           publishedArticle == [old EXCEPT !.status = "PUBLISHED", !.publishedAt = now,
                                           !.statusBy = c.headers.role]
       IN  IF found = {}
           THEN /\ ContentFinish(p, PublishFailed(RecordToUpdateNotFound))
                /\ UNCHANGED articles
           ELSE /\ articles' = (articles \ found) \cup {publishedArticle}
                /\ ccall' = [ccall EXCEPT ![p].article = publishedArticle]
                /\ cpc' = [cpc EXCEPT ![p] = "publish_version"]
                /\ cres' = cres
    /\ UNCHANGED <<now, cfg, realtimeVars, debounceVars, perm, authVars, rateVars, contentVersions, tags, nextRowId,
                   ccalls, revisions, updatesDone>>

\* prisma.contentVersion.updateMany on the published version, and the 200
PublishVersion(p) ==
    /\ cpc[p] = "publish_version"
    /\ LET c == ccall[p]
       IN  /\ contentVersions' =
                 {IF v.contentId = c.id /\ v.version = c.article.version
                  THEN [v EXCEPT !.publishedAt = now] ELSE v : v \in contentVersions}
           /\ ContentFinish(p, ContentResponse(200, c.article))
    /\ UNCHANGED <<now, cfg, realtimeVars, debounceVars, perm, authVars, rateVars, articles, tags, nextRowId,
                   ccalls, revisions, updatesDone>>

(* ---------------------- DELETE /api/content/[id] ---------------------- *)

DeleteStart(p, headers, id) ==
    /\ ContentStart(p,
          [NoContentCall EXCEPT !.op = "delete", !.headers = headers, !.id = id],
          IF headers.id = 0 THEN NotAuthenticated ELSE NoResponse,
          "delete_find")
    /\ UNCHANGED <<now, cfg, realtimeVars, debounceVars, perm, authVars, rateVars, articles, contentVersions, tags,
                   nextRowId, revisions, updatesDone>>

\* the role and owner check of DELETE
MayDelete(headers, article) ==
    \/ headers.role = "admin"
    \/ headers.role = "editor"
    \/ article.authorId = headers.id

\* findUnique by id and the permission check
DeleteFind(p) ==
    /\ cpc[p] = "delete_find"
    /\ LET c == ccall[p]
           found == ArticleById(c.id)
           article == CHOOSE a \in found : TRUE
       IN  IF found = {} THEN ContentFinish(p, ArticleNotFound)
           ELSE IF ~MayDelete(c.headers, article) THEN ContentFinish(p, DeleteForbidden)
           ELSE /\ cpc' = [cpc EXCEPT ![p] = "delete_article"]
                /\ UNCHANGED <<cres, ccall>>
    /\ UNCHANGED <<now, cfg, realtimeVars, debounceVars, perm, authVars, rateVars, articles, contentVersions, tags,
                   nextRowId, ccalls, revisions, updatesDone>>

\* prisma.article.delete: the row goes with its tag links; its content
\* versions go with it or forbid the delete, as the schema says
DeleteArticle(p) ==
    /\ cpc[p] = "delete_article"
    /\ LET found == ArticleById(ccall[p].id)
           versions == {v \in contentVersions : v.contentId = ccall[p].id}
       IN  IF found = {}
           THEN /\ ContentFinish(p, DeleteFailed(P2025))
                /\ UNCHANGED <<articles, contentVersions>>
           ELSE IF cfg.onDelete = "Restrict" /\ versions # {}
           THEN /\ ContentFinish(p, DeleteFailed(ForeignKeyFailed))
                /\ UNCHANGED <<articles, contentVersions>>
           ELSE /\ articles' = articles \ found
                /\ contentVersions' = contentVersions \ versions
                /\ ContentFinish(p, ArticleDeleted)
    /\ UNCHANGED <<now, cfg, realtimeVars, debounceVars, perm, authVars, rateVars, tags, nextRowId, ccalls,
                   revisions, updatesDone>>

(* ================== Part IV: realtime (server-sent events) ============ *)

(* ----------------------------- EventEmitter --------------------------- *)

Clients == 1 .. MaxClients

\* a client that has not connected
NoStream ==
    [phase |-> "none", controller |-> "none", heartbeat |-> FALSE, queue |-> <<>>,
     unsubscribed |-> FALSE, unsubAt |-> 0]

RealtimeInit ==
    /\ listeners = <<>>
    /\ streams = [c \in Clients |-> NoStream]
    /\ emitted = <<>>

\* the elements of the Set
Listening == {listeners[k] : k \in DOMAIN listeners}

\* this.listeners.add(listener): a Set keeps one entry per function, in the
\* order of insertion
SetAdd(set, listener) ==
    IF \E k \in DOMAIN set : set[k] = listener THEN set ELSE Append(set, listener)

\* this.listeners.delete(listener)
SetDelete(set, listener) == SelectSeq(set, LAMBDA l : l # listener)

\* the listener of client c is the closure GET subscribes: it enqueues on the
\* controller of c's stream, and enqueue throws once the stream is closed or
\* cancelled
Throws(listener) == streams[listener].controller # "readable"

\* the functions forEach calls when a throw ends the loop
RECURSIVE CallEachUncaught(_)
CallEachUncaught(set) ==
    IF set = <<>> THEN <<>>
    ELSE IF Throws(Head(set)) THEN <<Head(set)>>
    ELSE <<Head(set)>> \o CallEachUncaught(Tail(set))

\* this.listeners.forEach(listener => { try { listener(message) } catch ... }):
\* the functions called, in order; no listener changes the Set
RECURSIVE CallEach(_)
CallEach(set) ==
    IF set = <<>> THEN <<>>
    ELSE <<Head(set)>> \o CallEach(Tail(set))

\* how often a function is in a sequence of calls
TimesCalled(called, listener) == Cardinality({k \in DOMAIN called : called[k] = listener})

\* the message emit builds
Message(event, data) == [type |-> event, data |-> data, timestamp |-> now]

\* the data: line the stream begins with
ConnectedMessage == [type |-> "connected", data |-> 0, timestamp |-> now]

\* emit(event, data), as broadcastEvent calls it: every call of a listener
\* that does not throw enqueues the message on its stream
Emit(event, data) ==
    /\ Len(emitted) < MaxEmits
    /\ LET message == Message(event, data)
           called == CallEach(listeners)
       IN  /\ streams' = [c \in Clients |->
                 IF Throws(c) THEN streams[c]
                 ELSE [streams[c] EXCEPT !.queue =
                          @ \o [k \in 1 .. TimesCalled(called, c) |-> message]]]
           /\ emitted' = Append(emitted, [message |-> message, subscribed |-> Listening,
                                          called |-> called])
    /\ UNCHANGED <<now, cfg, perm, authVars, rateVars, contentVars, debounceVars, listeners>>

(* --------------------------- GET /api/realtime ------------------------ *)

\* start(controller): the connected message, subscribe, setInterval, and the
\* abort handler on req.signal
Connect(c) ==
    /\ streams[c].phase = "none"
    /\ streams' = [streams EXCEPT ![c] =
          [NoStream EXCEPT !.phase = "connected", !.controller = "readable",
                           !.heartbeat = TRUE, !.queue = <<ConnectedMessage>>]]
    /\ listeners' = SetAdd(listeners, c)
    /\ UNCHANGED <<now, cfg, perm, authVars, rateVars, contentVars, debounceVars, emitted>>

\* the consumer of the response body cancels the stream
Cancel(c) ==
    /\ streams[c].phase = "connected"
    /\ streams[c].controller = "readable"
    /\ streams' = [streams EXCEPT ![c].controller = "cancelled"]
    /\ UNCHANGED <<now, cfg, perm, authVars, rateVars, contentVars, debounceVars,
                   listeners, emitted>>

\* the interval callback: enqueue, or clearInterval and unsubscribe when
\* enqueue throws; the heartbeat lines a readable stream takes are not kept
\* in queue
Heartbeat(c) ==
    /\ streams[c].heartbeat
    /\ IF streams[c].controller = "readable"
       THEN UNCHANGED <<streams, listeners>>
       ELSE /\ streams' = [streams EXCEPT ![c].heartbeat = FALSE,
                                          ![c].unsubscribed = TRUE,
                                          ![c].unsubAt = Len(emitted)]
            /\ listeners' = SetDelete(listeners, c)
    /\ UNCHANGED <<now, cfg, perm, authVars, rateVars, contentVars, debounceVars, emitted>>

\* the abort handler: clearInterval, unsubscribe, controller.close() inside
\* try/catch
Abort(c) ==
    /\ streams[c].phase = "connected"
    /\ streams' = [streams EXCEPT ![c].phase = "aborted",
                                  ![c].heartbeat = FALSE,
                                  ![c].unsubscribed = TRUE,
                                  ![c].unsubAt = IF streams[c].unsubscribed
                                                 THEN @ ELSE Len(emitted),
                                  ![c].controller = IF @ = "readable" THEN "closed" ELSE @]
    /\ listeners' = SetDelete(listeners, c)
    /\ UNCHANGED <<now, cfg, perm, authVars, rateVars, contentVars, debounceVars, emitted>>

(* ==================== Part V: packages/shared debounce ================ *)

DebounceInit ==
    /\ timeout = 0
    /\ timers = {}
    /\ dlog = <<>>

\* the args of the calls, by kind of entry
Logged(kind) == SelectSeq(dlog, LAMBDA e : e.kind = kind)

\* setTimeout returns a new id each time
NextTimerId == Len(Logged("call")) + 1

\* the closure that leaves the pending timer alone
KeepTimeout(id) == timers

\* if (timeout) clearTimeout(timeout): the pending timers after it
ClearTimeout(id) == {t \in timers : t.id # id}

\* executedFunction(...args): clearTimeout, then setTimeout(later, wait)
executedFunction(args) ==
    /\ Len(Logged("call")) < MaxDebounceCalls
    /\ timers' = ClearTimeout(timeout) \cup
                    {[id |-> NextTimerId, due |-> now + cfg.wait, args |-> args]}
    /\ timeout' = NextTimerId
    /\ dlog' = Append(dlog, [kind |-> "call", at |-> now, args |-> args])
    /\ UNCHANGED <<now, cfg, perm, authVars, rateVars, contentVars, realtimeVars>>

\* the host runs later() of a timer that is due: no sooner than its delay,
\* and as late as the event loop gets to it
later(timer) ==
    /\ timer \in timers
    /\ timer.due <= now
    /\ timers' = timers \ {timer}
    /\ timeout' = 0
    /\ dlog' = Append(dlog, [kind |-> "run", at |-> now, args |-> timer.args])
    /\ UNCHANGED <<now, cfg, perm, authVars, rateVars, contentVars, realtimeVars>>

(* ------------------------------ the clock ----------------------------- *)

Tick ==
    /\ \E d \in cfg.steps : /\ now + d <= cfg.horizon
                            /\ now' = now + d
    /\ UNCHANGED <<cfg, realtimeVars, debounceVars, perm, contentVars, authVars, rateVars>>

\* time passing between gateway invocations: the awaits of checkLimit are on
\* the in-memory cache, so no clock step of this size falls inside one
Elapse ==
    /\ \A p \in Procs : mpc[p] \in {"idle", "done"}
    /\ Tick

\* the clock read at the instants of the scenario, between requests
Advance ==
    /\ \A p \in Procs : pc[p] \in {"idle", "done"} /\ mpc[p] \in {"idle", "done"}
    /\ \E t \in cfg.instants : t > now /\ now' = t
    /\ UNCHANGED <<cfg, realtimeVars, debounceVars, perm, contentVars, authVars, rateVars>>

(* --------------------------- specifications --------------------------- *)

vars == <<now, cfg, perm, authVars, rateVars, contentVars, realtimeVars, debounceVars>>

\* the check before the running one: its arguments and its answer
NoPreviousCheck == [userRole |-> Absent, permission |-> Absent, granted |-> FALSE]

NoPermissionCheck ==
    [pc |-> "none", userRole |-> Absent, permission |-> Absent,
     permissions |-> <<>>, granted |-> FALSE, prev |-> NoPreviousCheck]

AuthInit ==
    /\ perm = NoPermissionCheck
    /\ ContentInit
    /\ users = {}
    /\ refreshTokens = {}
    /\ nextTokenId = 1
    /\ pc = [p \in Procs |-> "idle"]
    /\ call = [p \in Procs |-> NoCall]
    /\ res = [p \in Procs |-> NoResponse]
    /\ calls = 0
    /\ issued = {}
    /\ rotated = {}
    /\ lin = <<>>

RateInit ==
    /\ cache = [key \in RateKeys |-> NoItem]
    /\ mpc = [p \in Procs |-> "idle"]
    /\ mcall = [p \in Procs |-> NoMCall]
    /\ mres = [p \in Procs |-> NoMwResponse]
    /\ mcalls = 0
    /\ win = [key \in RateKeys |-> NoWindow]

NoScenario ==
    [procs |-> {}, cap |-> 0, steps |-> {}, horizon |-> 0, types |-> {}, mcap |-> 0,
     instants |-> {}, refreshExpiry |-> DefaultRefreshExpiry, clients |-> <<>>,
     onDelete |-> "Cascade", wait |-> 0]

\* the auth routes under concurrent requests
Init ==
    /\ now = 0
    /\ RealtimeInit
    /\ DebounceInit
    /\ cfg = [NoScenario EXCEPT !.procs = Procs, !.cap = MaxCalls,
                                 !.steps = {1000}, !.horizon = MaxSeconds * 1000]
    /\ AuthInit
    /\ RateInit

Register(p) ==
    \/ \E email \in Emails, role \in {Absent, "editor"} :
          RegisterFind(p, email, GoodPassword, GoodName, role)
    \/ RegisterCreate(p)
    \/ RegisterStore(p)

Login(p) ==
    \/ \E email \in Emails \cup {Absent}, password \in Passwords \cup {Absent} :
          LoginFind(p, email, password)
    \/ LoginStore(p)

Refresh(p) ==
    \/ \E token \in IssuedTokens \cup {ForgedToken, NoToken} : RefreshStart(p, token)
    \/ RefreshFind(p)
    \/ RefreshDelete(p)
    \/ RefreshCreate(p)

Next ==
    \/ \E p \in Procs : Register(p) \/ Login(p) \/ Refresh(p)
    \/ Tick

Spec == Init /\ [][Next]_vars

\* register and login alone, within one clock second
NextLogin == \E p \in Procs : Register(p) \/ Login(p)

SpecLogin == Init /\ [][NextLogin]_vars

(* registration alone, two requests at a time: bodies that pass          *)
(* validateRegistration, bodies with one field that does not, and one     *)
(* with none that does                                                    *)
RegisterBody(email, password, name, role) ==
    [email |-> email, password |-> password, name |-> name, role |-> role]

RegisterBodies ==
    {RegisterBody(e, GoodPassword, GoodName, r) : e \in Emails, r \in RolesGiven} \cup
    {RegisterBody(e, GoodPassword, GoodName, Absent) : e \in MalformedEmails} \cup
    {RegisterBody("alice@example.com", w, GoodName, Absent) : w \in WeakPasswords} \cup
    {RegisterBody("alice@example.com", GoodPassword, n, Absent) : n \in ShortNames} \cup
    {RegisterBody("alice.example.com", "passw0rd!", "A", "superuser")}

InitRegister ==
    /\ now = 0
    /\ RealtimeInit
    /\ DebounceInit
    /\ cfg = [NoScenario EXCEPT !.procs = {1, 2}, !.cap = MaxRegisterCalls,
                                 !.steps = {1000}, !.horizon = MaxSeconds * 1000]
    /\ AuthInit
    /\ RateInit

RegisterAny(p) ==
    \/ \E body \in RegisterBodies :
          RegisterFind(p, body.email, body.password, body.name, body.role)
    \/ RegisterCreate(p)
    \/ RegisterStore(p)

NextRegister ==
    \/ \E p \in Procs : RegisterAny(p)
    \/ Tick

SpecRegister == InitRegister /\ [][NextRegister]_vars

(* the same registrations against a database that may go down before the *)
(* refresh record is stored                                               *)
NextRegisterOutage ==
    \/ \E p \in Procs : RegisterAny(p) \/ RegisterStoreRejected(p)
    \/ Tick

SpecRegisterOutage == InitRegister /\ [][NextRegisterOutage]_vars

(* rate limiter scenarios *)

RateSteps(p) ==
    \/ IncrSet(p)
    \/ Expire(p)
    \/ CheckLimitReturn(p)

DirectCall(p) ==
    \E type \in BucketTypes, identifier \in Identifiers : CheckLimit(p, type, identifier)

\* one caller, one key, every request inside the hour that starts at clock 0
InitSeq ==
    /\ now = 0
    /\ RealtimeInit
    /\ DebounceInit
    /\ \E type \in BucketTypes :
          cfg = [NoScenario EXCEPT !.procs = {1}, !.types = {type},
                                   !.mcap = limits(type) + Overshoot,
                                   !.steps = {HourMs \div TicksPerWindow},
                                   !.horizon = HourMs]
    /\ AuthInit
    /\ RateInit

NextSeq ==
    \/ \E p \in Procs : DirectCall(p) \/ RateSteps(p)
    \/ Tick

SpecSeq == InitSeq /\ [][NextSeq]_vars

\* one caller, a few requests, the clock running over two hours
InitWindow ==
    /\ now = 0
    /\ RealtimeInit
    /\ DebounceInit
    /\ cfg = [NoScenario EXCEPT !.procs = {1}, !.types = BucketTypes,
                               !.mcap = MaxRateCalls,
                               !.steps = {HourMs \div TicksPerWindow},
                               !.horizon = 2 * HourMs]
    /\ AuthInit
    /\ RateInit

NextWindow ==
    \/ \E p \in Procs : DirectCall(p) \/ RateSteps(p)
    \/ Elapse

SpecWindow == InitWindow /\ [][NextWindow]_vars

\* the cache and the window after n requests made one after the other at clock 0
CacheAfter(key, n) ==
    IF n = 0 THEN NoItem
    ELSE [present |-> TRUE, value |-> NumToString(n), expiry |-> window * 1000]

WindowAfter(key, n) ==
    IF n = 0 THEN NoWindow
    ELSE [open |-> TRUE, exp |-> HourMs, k |-> n, allowed |-> n]

\* concurrent callers of one key that is empty or one request short of its
\* ceiling
InitConc ==
    /\ now = 0
    /\ RealtimeInit
    /\ DebounceInit
    /\ AuthInit
    /\ mpc = [p \in Procs |-> "idle"]
    /\ mcall = [p \in Procs |-> NoMCall]
    /\ mres = [p \in Procs |-> NoMwResponse]
    /\ mcalls = 0
    /\ \E type \in BucketTypes : \E n \in {0, limits(type) - 1} :
          /\ cfg = [NoScenario EXCEPT !.procs = Procs, !.types = {type},
                                      !.mcap = MaxRateCalls]
          /\ cache = [key \in RateKeys |->
                        IF key[2] = type THEN CacheAfter(key, n) ELSE NoItem]
          /\ win = [key \in RateKeys |->
                      IF key[2] = type THEN WindowAfter(key, n) ELSE NoWindow]

NextConc == \E p \in Procs : DirectCall(p) \/ RateSteps(p)

SpecConc == InitConc /\ [][NextConc]_vars

\* requests through the middleware, one at a time (invocations share only
\* the counters); each bucket is empty or one request short of its ceiling
InitMw ==
    /\ now = 0
    /\ RealtimeInit
    /\ DebounceInit
    /\ AuthInit
    /\ mpc = [p \in Procs |-> "idle"]
    /\ mcall = [p \in Procs |-> NoMCall]
    /\ mres = [p \in Procs |-> NoMwResponse]
    /\ mcalls = 0
    /\ cfg = [NoScenario EXCEPT !.procs = {1}, !.mcap = MaxRateCalls]
    /\ \E full \in SUBSET {"anonymous", "authenticated"} :
          /\ cache = [key \in RateKeys |->
                        CacheAfter(key, IF key[2] \in full THEN limits(key[2]) - 1 ELSE 0)]
          /\ win = [key \in RateKeys |->
                      WindowAfter(key, IF key[2] \in full THEN limits(key[2]) - 1 ELSE 0)]

Middleware(p) ==
    \/ \E path \in Paths, authHeader \in AuthHeaders,
          xuser \in {NoUserHeaders, ForgedUserHeaders}, identifier \in Identifiers :
          MiddlewareStart(p, path, authHeader, xuser, identifier)
    \/ MiddlewareAuth(p)

NextMw == \E p \in Procs : Middleware(p) \/ RateSteps(p)

SpecMw == InitMw /\ [][NextMw]_vars

(* one client over a long time: registered when the clock read 0, it logs *)
(* in, refreshes with the tokens it was given and with a forged one, and  *)
(* sends the tokens it was given as Bearer tokens of a protected request; *)
(* the clock is read around the access expiry and around the refresh      *)
(* expiries; JWT_REFRESH_EXPIRY is left at its default or set to '8d'     *)
AccessExpiryMs == JWT_ACCESS_EXPIRY * 1000

SessionInstants ==
    {1000, AccessExpiryMs - 1, AccessExpiryMs,
     RefreshRecordMs, RefreshRecordMs + 1000}

RefreshExpirySettings == {DefaultRefreshExpiry, 8 * 24 * 60 * 60}

\* the row user.create returned to the client's register request
SessionUser ==
    [id |-> 1, email |-> "alice@example.com", password |-> hashPassword(GoodPassword),
     name |-> GoodName, role |-> ToUpperCase(DefaultRole(Absent))]

\* the store and the client's tokens after that request was answered 201
InitSession ==
    /\ now = 0
    /\ RealtimeInit
    /\ DebounceInit
    /\ \E expiry \in RefreshExpirySettings :
          cfg = [NoScenario EXCEPT !.procs = {1}, !.cap = MaxSessionCalls,
                                   !.mcap = MaxSessionRequests,
                                   !.instants = SessionInstants,
                                   !.refreshExpiry = expiry]
    /\ perm = NoPermissionCheck
    /\ ContentInit
    /\ users = {SessionUser}
    /\ refreshTokens =
          {[id |-> 1, token |-> generateRefreshToken(TokenPayload(SessionUser)),
            userId |-> SessionUser.id, expiresAt |-> now + RefreshRecordMs]}
    /\ nextTokenId = 2
    /\ lin = (1 :> 1)
    /\ issued =
          {[kind |-> "access", token |-> generateAccessToken(TokenPayload(SessionUser)),
            at |-> now],
           [kind |-> "refresh", token |-> generateRefreshToken(TokenPayload(SessionUser)),
            at |-> now]}
    /\ rotated = {}
    /\ pc = [p \in Procs |-> "idle"]
    /\ call = [p \in Procs |-> NoCall]
    /\ res = [p \in Procs |-> NoResponse]
    /\ calls = 0
    /\ RateInit

\* the client sends its next request when the last one is answered
SessionIdle(p) == pc[p] \in {"idle", "done"} /\ mpc[p] \in {"idle", "done"}

SessionAuth(p) ==
    \/ SessionIdle(p) /\ LoginFind(p, "alice@example.com", GoodPassword)
    \/ LoginStore(p)
    \/ SessionIdle(p) /\ \E token \in IssuedTokens \cup {ForgedToken} : RefreshStart(p, token)
    \/ RefreshFind(p)
    \/ RefreshDelete(p)
    \/ RefreshCreate(p)

SessionRequest(p) ==
    \/ /\ SessionIdle(p)
       /\ \E token \in IssuedTokens, identifier \in Identifiers :
             MiddlewareStart(p, "/api/content", <<"Bearer", token>>, NoUserHeaders, identifier)
    \/ RateSteps(p)
    \/ MiddlewareAuth(p)

NextSession ==
    \/ \E p \in Procs : SessionAuth(p) \/ SessionRequest(p)
    \/ Advance

SpecSession == InitSession /\ [][NextSession]_vars

(* the same session without protected requests: logins and refreshes at   *)
(* the instants of the scenario                                           *)
NextSessionAuth ==
    \/ \E p \in Procs : SessionAuth(p)
    \/ Advance

SpecSessionAuth == InitSession /\ [][NextSessionAuth]_vars

(* rotation under concurrency: the registered client of the session above *)
(* on two connections, logging in and refreshing while the clock runs     *)
InitRotate ==
    /\ now = 0
    /\ RealtimeInit
    /\ DebounceInit
    /\ cfg = [NoScenario EXCEPT !.procs = {1, 2}, !.cap = MaxRotateCalls,
                                 !.steps = {1000}, !.horizon = MaxSeconds * 1000]
    /\ perm = NoPermissionCheck
    /\ ContentInit
    /\ users = {SessionUser}
    /\ refreshTokens =
          {[id |-> 1, token |-> generateRefreshToken(TokenPayload(SessionUser)),
            userId |-> SessionUser.id, expiresAt |-> now + RefreshRecordMs]}
    /\ nextTokenId = 2
    /\ lin = (1 :> 1)
    /\ issued =
          {[kind |-> "access", token |-> generateAccessToken(TokenPayload(SessionUser)),
            at |-> now],
           [kind |-> "refresh", token |-> generateRefreshToken(TokenPayload(SessionUser)),
            at |-> now]}
    /\ rotated = {}
    /\ pc = [p \in Procs |-> "idle"]
    /\ call = [p \in Procs |-> NoCall]
    /\ res = [p \in Procs |-> NoResponse]
    /\ calls = 0
    /\ RateInit

RotateLogin(p) ==
    \/ LoginFind(p, SessionUser.email, GoodPassword)
    \/ LoginStore(p)

RotateRefresh(p) ==
    \/ \E token \in {i.token : i \in {j \in issued : j.kind = "refresh"}} :
          RefreshStart(p, token)
    \/ RefreshFind(p)
    \/ RefreshDelete(p)
    \/ RefreshCreate(p)

NextRotate ==
    \/ \E p \in Procs : RotateLogin(p) \/ RotateRefresh(p)
    \/ Tick

SpecRotate == InitRotate /\ [][NextRotate]_vars

(* permission resolution on its own: a role and a permission string are *)
(* drawn, then getPermissions and hasPermission answer                    *)
RoleInputs == UserRole \cup {"Admin", "EDITOR", "AUTHOR", "Viewer", "guest"}

\* every string the table names
TablePermissions ==
    UNION {{permissions[role][i] : i \in DOMAIN permissions[role]} : role \in UserRole}

PermissionInputs ==
    {"content:create", "content:read", "content:edit:own", "content:delete",
     "contents:export", "contentx:read", "media:upload", "media:delete",
     "media:*", "content:*", "comments:create",
     "comments:moderate", "comments:moderateAll", "users:manage", "*"}

InitPerm ==
    /\ now = 0
    /\ RealtimeInit
    /\ DebounceInit
    /\ cfg = NoScenario
    /\ AuthInit
    /\ RateInit

PermissionArguments ==
    /\ perm.pc \in {"none", "done"}
    /\ \E userRole \in RoleInputs, permission \in PermissionInputs :
          perm' = [NoPermissionCheck EXCEPT
                      !.pc = "called", !.userRole = userRole, !.permission = permission,
                      !.prev = IF perm.pc = "done"
                               THEN [userRole |-> perm.userRole,
                                     permission |-> perm.permission,
                                     granted |-> perm.granted]
                               ELSE NoPreviousCheck]
    /\ UNCHANGED <<now, cfg, realtimeVars, debounceVars, authVars, rateVars, contentVars>>

PermissionAnswer ==
    /\ perm.pc = "called"
    /\ perm' = [perm EXCEPT !.pc = "done",
                            !.permissions = getPermissions(perm.userRole),
                            !.granted = hasPermission(perm.userRole, perm.permission)]
    /\ UNCHANGED <<now, cfg, realtimeVars, debounceVars, authVars, rateVars, contentVars>>

NextPerm == PermissionArguments \/ PermissionAnswer

SpecPerm == InitPerm /\ [][NextPerm]_vars

(* the content routes behind the middleware: the x-user headers are those *)
(* of a verified access token of one of four identities, one per role     *)
ContentUsers ==
    {[userId |-> 1, email |-> "admin@example.com", role |-> "admin"],
     [userId |-> 2, email |-> "editor@example.com", role |-> "editor"],
     [userId |-> 3, email |-> "author@example.com", role |-> "author"],
     [userId |-> 4, email |-> "viewer@example.com", role |-> "viewer"]}

ContentHeaders == {UserHeaders(payload) : payload \in ContentUsers}

\* bodies of POST /api/content: a good one, and one with a too short
\* title, with a status, with a tag
GoodBody == [NoBody EXCEPT !.title = "Hello World", !.content = "Body text one."]

CreateBodies ==
    {GoodBody,
     [GoodBody EXCEPT !.title = "Hi"],
     [GoodBody EXCEPT !.status = "published"],
     [GoodBody EXCEPT !.tags = <<"News">>]}

\* bodies of PUT /api/content/[id]: one field each
UpdateBodies ==
    {[NoBody EXCEPT !.title = "Hello Again"],
     [NoBody EXCEPT !.title = "Hi"],
     [NoBody EXCEPT !.content = "Body text two."],
     [NoBody EXCEPT !.status = "published"]}

\* params.id: an article of the store, or 0 for none
ArticleIds == {a.id : a \in articles} \cup {0}

\* the store after the author's POST /api/content with the good body
FirstAuthor == UserHeaders(CHOOSE payload \in ContentUsers : payload.role = "author")

FirstArticle ==
    [id |-> 1, title |-> GoodBody.title, slug |-> slugify(GoodBody.title),
     content |-> GoodBody.content, status |-> "DRAFT", authorId |-> FirstAuthor.id,
     version |-> ArticleVersionDefault, publishedAt |-> 0, tags |-> {},
     statusBy |-> FirstAuthor.role]

\* each process carries the requests of one client, whose access token
\* gives the headers of all its requests
InitContent ==
    /\ now = 0
    /\ RealtimeInit
    /\ DebounceInit
    /\ \E clients \in [{1, 2} -> ContentHeaders] :
          cfg = [NoScenario EXCEPT !.procs = {1, 2}, !.cap = MaxContentCalls,
                                   !.clients = clients]
    /\ perm = NoPermissionCheck
    /\ users = {}
    /\ refreshTokens = {}
    /\ nextTokenId = 1
    /\ pc = [p \in Procs |-> "idle"]
    /\ call = [p \in Procs |-> NoCall]
    /\ res = [p \in Procs |-> NoResponse]
    /\ calls = 0
    /\ issued = {}
    /\ rotated = {}
    /\ lin = <<>>
    /\ RateInit
    /\ articles = {FirstArticle}
    /\ contentVersions =
          {[id |-> 2, contentId |-> 1, version |-> 1, title |-> GoodBody.title,
            content |-> GoodBody.content, createdById |-> FirstAuthor.id,
            publishedAt |-> 0]}
    /\ tags = {}
    /\ nextRowId = 3
    /\ cpc = [p \in Procs |-> "idle"]
    /\ ccall = [p \in Procs |-> NoContentCall]
    /\ cres = [p \in Procs |-> NoResponse]
    /\ ccalls = 0
    /\ revisions = {Revision(FirstArticle)}
    /\ updatesDone = (1 :> 0)

Create(p) ==
    /\ p \in cfg.procs
    /\ \E body \in CreateBodies : CreateStart(p, cfg.clients[p], body)

Update(p) ==
    /\ p \in cfg.procs
    /\ \E id \in ArticleIds, body \in UpdateBodies :
          UpdateStart(p, cfg.clients[p], id, body)

Publish(p) ==
    /\ p \in cfg.procs
    /\ \E id \in ArticleIds : PublishStart(p, cfg.clients[p], id)

NextContent ==
    \E p \in Procs :
        \/ Create(p) \/ CreateSlug(p) \/ TagFind(p) \/ TagCreate(p)
        \/ CreateArticle(p) \/ CreateVersion(p)
        \/ Update(p) \/ UpdateFind(p) \/ UpdateArticle(p) \/ UpdateVersion(p)
        \/ Publish(p) \/ PublishFind(p) \/ PublishArticle(p) \/ PublishVersion(p)

SpecContent == InitContent /\ [][NextContent]_vars

(* edits and deletes of the first article: the clients above and a second *)
(* author, who did not write it                                           *)
EditHeaders ==
    ContentHeaders \cup
    {UserHeaders([userId |-> 5, email |-> "writer@example.com", role |-> "author"])}

\* bodies of PUT /api/content/[id]: a new title, a tag
EditBodies ==
    {[NoBody EXCEPT !.title = "Hello Again"],
     [NoBody EXCEPT !.tags = <<"News">>]}

InitEdit ==
    /\ now = 0
    /\ RealtimeInit
    /\ DebounceInit
    /\ \E clients \in [{1, 2} -> EditHeaders], onDelete \in ReferentialActions :
          cfg = [NoScenario EXCEPT !.procs = {1, 2}, !.cap = MaxContentCalls,
                                   !.clients = clients, !.onDelete = onDelete]
    /\ perm = NoPermissionCheck
    /\ users = {}
    /\ refreshTokens = {}
    /\ nextTokenId = 1
    /\ pc = [p \in Procs |-> "idle"]
    /\ call = [p \in Procs |-> NoCall]
    /\ res = [p \in Procs |-> NoResponse]
    /\ calls = 0
    /\ issued = {}
    /\ rotated = {}
    /\ lin = <<>>
    /\ RateInit
    /\ articles = {FirstArticle}
    /\ contentVersions =
          {[id |-> 2, contentId |-> 1, version |-> 1, title |-> GoodBody.title,
            content |-> GoodBody.content, createdById |-> FirstAuthor.id,
            publishedAt |-> 0]}
    /\ tags = {}
    /\ nextRowId = 3
    /\ cpc = [p \in Procs |-> "idle"]
    /\ ccall = [p \in Procs |-> NoContentCall]
    /\ cres = [p \in Procs |-> NoResponse]
    /\ ccalls = 0
    /\ revisions = {Revision(FirstArticle)}
    /\ updatesDone = (1 :> 0)

Edit(p) ==
    /\ p \in cfg.procs
    /\ \E id \in ArticleIds, body \in EditBodies :
          UpdateStart(p, cfg.clients[p], id, body)

Delete(p) ==
    /\ p \in cfg.procs
    /\ \E id \in ArticleIds : DeleteStart(p, cfg.clients[p], id)

NextEdit ==
    \E p \in Procs :
        \/ Edit(p) \/ UpdateFind(p) \/ TagFind(p) \/ TagCreate(p)
        \/ UpdateArticle(p) \/ UpdateVersion(p)
        \/ Delete(p) \/ DeleteFind(p) \/ DeleteArticle(p)

SpecEdit == InitEdit /\ [][NextEdit]_vars

(* SSE clients connecting, leaving and being broadcast to                 *)
Events == {"content:updated"}

InitRealtime ==
    /\ now = 0
    /\ RealtimeInit
    /\ DebounceInit
    /\ cfg = NoScenario
    /\ AuthInit
    /\ RateInit

NextRealtime ==
    \/ \E c \in Clients : Connect(c) \/ Cancel(c) \/ Heartbeat(c) \/ Abort(c)
    \/ \E event \in Events : Emit(event, Len(emitted) + 1)

SpecRealtime == InitRealtime /\ [][NextRealtime]_vars

(* one debounced function called with changing arguments while the clock *)
(* runs, a millisecond a step                                             *)
Waits == {2, 3}

DebounceArgs == {"draft one", "draft two"}

InitDebounce ==
    /\ now = 0
    /\ RealtimeInit
    /\ DebounceInit
    /\ \E wait \in Waits :
          cfg = [NoScenario EXCEPT !.steps = {1}, !.wait = wait,
                                   !.horizon = wait * MaxDebounceCalls]
    /\ AuthInit
    /\ RateInit

NextDebounce ==
    \/ \E args \in DebounceArgs : executedFunction(args)
    \/ \E timer \in timers : later(timer)
    \/ Tick

SpecDebounce == InitDebounce /\ [][NextDebounce]_vars

(* ============================ rate limiting =========================== *)

CheckLimitDone(p) == mpc[p] = "done" /\ mcall[p].kind = "checkLimit"

C3_Ceiling(type) ==
    CASE type = "anonymous" -> 100
      [] type = "authenticated" -> 1000
      [] type = "api_key" -> 10000

\* C3: for checkLimit calls made one after the other on one key inside one
\* window, the k-th call is allowed exactly when k <= ceiling.
C3_AllowedUpToCeiling ==
    \A p \in Procs :
        CheckLimitDone(p) =>
            (mcall[p].rateLimit.allowed <=> mcall[p].k <= C3_Ceiling(mcall[p].type))

C3_Witness ==
    \E p \in Procs :
        /\ CheckLimitDone(p)
        /\ mcall[p].k = C3_Ceiling(mcall[p].type) + 1
        /\ ~mcall[p].rateLimit.allowed
        /\ now > 0

\* C4: however the get/set steps of checkLimit calls on one key interleave
\* inside one window, at most `ceiling` of the calls return allowed = true.
C4_AtMostCeilingAllowed ==
    \A key \in RateKeys : win[key].allowed <= C3_Ceiling(key[2])

\* C5: a request that arrives after the window's expiry (3600 s after the
\* window's first request) starts a fresh window: count 1, allowed.
C5_FreshWindowAfterExpiry ==
    \A p \in Procs :
        (CheckLimitDone(p) /\ mcall[p].k = 1) =>
            (mcall[p].count = 1 /\ mcall[p].rateLimit.allowed)

(* ============================= middleware ============================= *)

MiddlewareDone(p) == mpc[p] = "done" /\ mcall[p].kind = "middleware"

ProtectedPath(path) ==
    path \in {"/api/content"}

\* C7: the handler of a protected /api route is reached only by a request the
\* rate limiter admitted and whose Bearer access token verified, and it sees
\* the token's payload in x-user-id, x-user-email, x-user-role; every other
\* request to the route is answered 429 or 401.
C7_ProtectedHandlerGuarded ==
    \A p \in Procs :
        (MiddlewareDone(p) /\ ProtectedPath(mcall[p].path)) =>
            IF mres[p].next
            THEN /\ mcall[p].limited
                 /\ mcall[p].rateLimit.allowed
                 /\ mcall[p].authorization = <<"Bearer", LiveAccessToken>>
                 /\ mres[p].headers =
                      [id |-> 1, email |-> "alice@example.com", role |-> "viewer"]
            ELSE mres[p].status \in {429, 401}

C7_Witness ==
    \E p \in Procs :
        /\ MiddlewareDone(p)
        /\ ProtectedPath(mcall[p].path)
        /\ mres[p].next
        /\ mcall[p].xuser = ForgedUserHeaders

\* C8: every request to an /api route, login, register and refresh included,
\* reaches its handler only after the rate limiter has admitted it.
C8_EveryRequestRateLimited ==
    \A p \in Procs :
        (MiddlewareDone(p) /\ StartsWith(mcall[p].path, "/api") /\ mres[p].next) =>
            (mcall[p].limited /\ mcall[p].rateLimit.allowed)

(* ======================= refresh-token rotation ======================= *)

RefreshDone(p) == pc[p] = "done" /\ call[p].op = "refresh"

\* C1: once a refresh with token t has succeeded, every refresh with t that
\* starts later ends with the 401 invalid-or-expired response.
C1_RotationSingleUse ==
    \A p \in Procs :
        (RefreshDone(p) /\ call[p].reuse) => res[p] = RefreshNotStored

\* the refresh calls that presented token t while it was valid and unrotated
Batch(t) ==
    {p \in Procs : /\ pc[p] # "idle"
                   /\ call[p].op = "refresh"
                   /\ call[p].token = t
                   /\ call[p].fresh}

\* C2: of N >= 2 refresh calls that present the same valid, not yet rotated
\* token, exactly one returns 200 and the others fail.
C2_ExactlyOneRefreshWins ==
    \A p \in Procs :
        LET B == Batch(call[p].token)
        IN  (Cardinality(B) >= 2 /\ \A q \in B : pc[q] = "done")
               => Cardinality({q \in B : res[q].status = 200}) = 1

\* C9: while a refresh of a valid token is under way, the store holds at
\* least one valid row of that session lineage.
C9_LineageNeverEmpty ==
    \A p \in Procs :
        pc[p] \in {"ref_delete", "ref_create"} =>
            \E r \in refreshTokens :
                lin[r.id] = lin[call[p].stored.id] /\ ValidRow(r)

\* C10: a refresh whose row was deleted by a concurrent refresh after its own
\* lookup succeeded ends with the 401 invalid-or-expired response.
C10_LoserGetsNotFound ==
    \A p \in Procs :
        (RefreshDone(p) /\ call[p].lostRace) => res[p] = RefreshNotStored

(* ================================ login =============================== *)

LoginDone(p) ==
    /\ pc[p] = "done"
    /\ call[p].op = "login"
    /\ call[p].email # Absent
    /\ call[p].password # Absent

UnknownEmail(p) == LoginDone(p) /\ ~call[p].known

WrongPassword(p) ==
    LoginDone(p) /\ call[p].known /\ call[p].password # GoodPassword

\* C6: a login for an email with no identity and a login for an existing
\* identity with a wrong password get the same status, 401, and the same body.
C6_LoginHidesRegistration ==
    \A p, q \in Procs :
        (UnknownEmail(p) /\ WrongPassword(q)) =>
            /\ res[p].status = 401
            /\ res[q].status = 401
            /\ res[p] = res[q]

C6_Witness == \E p, q \in Procs : UnknownEmail(p) /\ WrongPassword(q)

(* ============================ permissions ============================= *)

PermissionDone(userRole, permission) ==
    /\ perm.pc = "done"
    /\ perm.userRole = userRole
    /\ perm.permission = permission

\* C20: permission resolution for role editor grants content:create, through
\* the content:* wildcard of the editor's table entry, and does not grant
\* comments:moderateAll, which no wildcard and no exact entry of it matches.
C20_EditorPermissions ==
    /\ PermissionDone("editor", "content:create") =>
          /\ perm.granted
          /\ Includes(perm.permissions, "content:*")
          /\ ~Includes(perm.permissions, "content:create")
    /\ PermissionDone("editor", "comments:moderateAll") =>
          /\ ~perm.granted
          /\ ~Includes(perm.permissions, "comments:moderateAll")

C20_Witness == PermissionDone("editor", "comments:moderateAll")

\* C21: a check that is granted to a role without '*' is granted by an exact
\* entry or by a wildcard entry resource:* whose "resource:", colon included,
\* starts the permission; contentx:read is not granted against content:*.
C21_WildcardDelimiterAware ==
    (perm.pc = "done" /\ perm.granted /\ ~Includes(rolePermissions(perm.userRole), "*")) =>
        \E i \in DOMAIN rolePermissions(perm.userRole) :
            LET p == rolePermissions(perm.userRole)[i]
            IN  IF endsWith(p, ":*")
                THEN startsWith(perm.permission, SliceEnd(p, 1))
                ELSE p = perm.permission

\* C22: for each of the four roles, in any letter case, getPermissions
\* returns the entry of the shared table, which is not empty, and the table
\* hasPermission reads has the same entries as the shared one.
C22_RoleTableTotal ==
    /\ \A role \in UserRole :
          /\ Len(permissions[role]) > 0
          /\ rolePermissions(role) = permissions[role]
    /\ (perm.pc = "done" /\ ToLowerCase(perm.userRole) \in UserRole) =>
          /\ perm.permissions = permissions[ToLowerCase(perm.userRole)]
          /\ Len(perm.permissions) > 0

C22_Witness ==
    /\ perm.pc = "done"
    /\ perm.userRole = "EDITOR"
    /\ perm.permissions = permissions["editor"]

\* two checks in a row of one permission string of the table, the first for
\* role first and the second for role second
BothChecked(first, second) ==
    /\ perm.pc = "done"
    /\ perm.prev.userRole = first
    /\ perm.userRole = second
    /\ perm.prev.permission = perm.permission
    /\ perm.permission \in TablePermissions

AdminGrantedAll ==
    \A role \in UserRole : (BothChecked(role, "admin") /\ perm.prev.granted) => perm.granted

\* C23 as stated: a permission string of the table granted to both editor and
\* author is a read, and admin is granted whatever another role is granted.
C23_EditorAuthorDisjoint ==
    /\ (BothChecked("editor", "author") /\ perm.prev.granted /\ perm.granted) =>
          endsWith(perm.permission, ":read")
    /\ AdminGrantedAll

\* C23 amended: every permission string of the table granted to author is
\* granted to editor too, author is granted no read, and admin is granted
\* whatever another role is granted.
C23_EditorCoversAuthor ==
    /\ (BothChecked("author", "editor") /\ perm.prev.granted) => perm.granted
    /\ (BothChecked("author", "editor") /\ endsWith(perm.permission, ":read")) =>
          ~perm.prev.granted
    /\ AdminGrantedAll

C23_Witness ==
    /\ BothChecked("author", "editor")
    /\ perm.permission = "content:edit:own"
    /\ perm.prev.granted
    /\ perm.granted

(* ============================ registration ============================ *)

RegisterDone(p) == pc[p] = "done" /\ call[p].op = "register"

\* a body the registration rules turn down, told from the lists of inputs
InvalidBody(c) ==
    \/ c.email \in MalformedEmails
    \/ c.password \in WeakPasswords
    \/ c.name \in ShortNames

ValidBody(c) == ~InvalidBody(c) /\ ToLowerCase(c.role) \in UserRole

\* C12: a register call with valid input whose email is unused (and is not
\* taken by another call before its identity is created) returns 201 with an
\* access token that verifyAccessToken accepts at once, whose payload is the
\* new identity's id, email and role; the returned permissions are the static
\* table's entry for that role.
C12_RegisterIssuesValidToken ==
    \A p \in Procs :
        (RegisterDone(p) /\ ValidBody(call[p]) /\ call[p].unused /\ ~call[p].lostRace) =>
            /\ res[p].status = 201
            /\ LET data == res[p].data[1]
                   identity == UserById(call[p].userId)
               IN  /\ verifyAccessToken(data.accessToken)
                   /\ identity.email = call[p].email
                   /\ data.accessToken.userId = identity.id
                   /\ data.accessToken.email = identity.email
                   /\ data.accessToken.role = ToLowerCase(identity.role)
                   /\ data.accessToken.role = ToLowerCase(call[p].role)
                   /\ data.user.permissions = rolePermissions(data.accessToken.role)

C12_Witness ==
    \E p \in Procs :
        /\ RegisterDone(p) /\ ValidBody(call[p]) /\ call[p].unused /\ ~call[p].lostRace
        /\ call[p].roleGiven = "Editor"
        /\ users # {}

\* C13: a register call whose email is malformed, whose password lacks one of
\* (8 characters, an uppercase letter, a lowercase letter, a digit) or whose
\* name has fewer than 2 characters after trimming returns 400 without having
\* called the store; it creates no identity and no refresh record.
C13_InvalidRegistrationRejected ==
    /\ \A p \in Procs :
          (RegisterDone(p) /\ InvalidBody(call[p])) =>
              /\ res[p].status = 400
              /\ ~call[p].storage
              /\ call[p].userId = 0
              /\ call[p].refreshToken = NoToken
    /\ \A u \in users :
          /\ u.email \notin MalformedEmails
          /\ u.name \notin ShortNames
          /\ \A w \in WeakPasswords : ~verifyPassword(w, u.password)

C13_Witness ==
    \E p \in Procs :
        /\ RegisterDone(p)
        /\ call[p].name = " A "
        /\ call[p].email \notin MalformedEmails
        /\ call[p].password \notin WeakPasswords
        /\ users # {}

\* C14: for any interleaving of valid register calls with the same email, at
\* most one identity with that email exists, exactly one call returns 201, and
\* every other call fails with 409 EmailTaken, creating nothing.
C14_OneRegistrationPerEmail ==
    /\ \A e \in Emails : Cardinality(UserByEmail(e)) <= 1
    /\ \A p, q \in Procs :
          (p # q /\ RegisterDone(p) /\ RegisterDone(q)
               /\ res[p].status = 201 /\ res[q].status = 201) =>
              call[p].email # call[q].email
    /\ \A p \in Procs :
          (RegisterDone(p) /\ ValidBody(call[p]) /\ res[p].status # 201) =>
              /\ res[p] = RegisterEmailTaken
              /\ call[p].userId = 0

\* C15: the role of every stored identity and of every issued token payload
\* is one of admin, editor, author, viewer; a register request without a role
\* creates an identity with role viewer, and one with a value that names no
\* role creates no identity.
C15_RolesClosed ==
    /\ \A u \in users : ToLowerCase(u.role) \in UserRole
    /\ \A t \in IssuedTokens : t.role \in UserRole
    /\ \A p \in Procs :
          (RegisterDone(p) /\ call[p].roleGiven = Absent /\ res[p].status = 201) =>
              /\ ToLowerCase(UserById(call[p].userId).role) = "viewer"
              /\ res[p].data[1].user.role = "viewer"
              /\ res[p].data[1].accessToken.role = "viewer"
    /\ \A p \in Procs :
          (RegisterDone(p) /\ call[p].roleGiven # Absent
               /\ ToLowerCase(call[p].roleGiven) \notin UserRole) =>
              /\ call[p].userId = 0
              /\ res[p].status \notin {200, 201}
              /\ \A u \in users : ToLowerCase(u.role) # ToLowerCase(call[p].roleGiven)

C15_Witness ==
    \E p, q \in Procs :
        /\ RegisterDone(p) /\ call[p].roleGiven = "superuser" /\ call[p].storage
        /\ ~InvalidBody(call[p])
        /\ RegisterDone(q) /\ call[q].roleGiven = Absent /\ res[q].status = 201

(* ============================== issuance ============================== *)

IssueDone(p) == pc[p] = "done" /\ res[p].status \in {200, 201}

\* C16: two successful issuances for the same identity return different
\* access tokens and different refresh token strings, and storing the new
\* refresh record never meets a token conflict, also within one clock second.
C16_IssuancesDiffer ==
    /\ \A p, q \in Procs :
          (p # q /\ IssueDone(p) /\ IssueDone(q) /\ call[p].userId = call[q].userId) =>
              /\ res[p].data[1].accessToken # res[q].data[1].accessToken
              /\ res[p].data[1].refreshToken # res[q].data[1].refreshToken
    /\ \A p \in Procs :
          (pc[p] = "done" /\ call[p].op \in {"login", "refresh"}) =>
              res[p].details # P2002

\* C19: the store's delete of a refresh record removes the record if it is
\* there and is idempotent: deleting a record that is absent, or was deleted
\* before, is not an error.
C19_DeleteOfAbsentRecordIsNoError ==
    \A p \in Procs :
        (pc[p] = "done" /\ call[p].op = "refresh") => res[p].details # P2025

(* =========================== token lifetimes ========================== *)

\* why a presented refresh token is not honoured
BadSignature(c) == c.token.secret \notin {JWT_ACCESS_SECRET, JWT_REFRESH_SECRET}

SignedWithAccessSecret(c) == c.token.secret = JWT_ACCESS_SECRET

JwtPastExpiry(c) == c.at \div 1000 >= c.token.exp

NoStoredRecord(c) == c.storage /\ c.seen = NoRow

StoredRecordPastExpiry(c) == c.storage /\ c.seen # NoRow /\ c.seen.expiresAt < c.seenAt

\* C11: for every non-empty refresh token presented to refresh, each failure
\* cause (bad signature, signed with the access secret, JWT past expiry, no
\* stored record, stored record past expiresAt) gives one and the same
\* response: 401 with the same error body.
C11_RefreshFailuresAlike ==
    \A p \in Procs :
        (/\ pc[p] = "done" /\ call[p].op = "refresh" /\ call[p].token # NoToken
         /\ \/ BadSignature(call[p])
            \/ SignedWithAccessSecret(call[p])
            \/ JwtPastExpiry(call[p])
            \/ NoStoredRecord(call[p])
            \/ StoredRecordPastExpiry(call[p])) =>
            res[p] = [status |-> 401, error |-> "Unauthorized",
                      message |-> "Invalid or expired refresh token",
                      details |-> Absent, data |-> <<>>]

\* a verified token whose stored record has run out
C11_Witness ==
    \E p \in Procs :
        /\ pc[p] = "done" /\ call[p].op = "refresh"
        /\ StoredRecordPastExpiry(call[p])
        /\ ~JwtPastExpiry(call[p])

\* C17: token kinds are not interchangeable: a refresh token sent as the
\* Bearer token of a protected request is answered 401, and an access token
\* presented to refresh is answered 401.
C17_KindsNotInterchangeable ==
    \A p \in Procs :
        /\ (/\ mpc[p] = "done" /\ mcall[p].kind = "middleware"
            /\ mcall[p].authorization # NoHeader
            /\ \E i \in issued : /\ i.kind = "refresh"
                                  /\ mcall[p].authorization = <<"Bearer", i.token>>) =>
               (~mres[p].next /\ mres[p].status = 401)
        /\ (/\ pc[p] = "done" /\ call[p].op = "refresh"
            /\ \E i \in issued : i.kind = "access" /\ call[p].token = i.token) =>
               res[p].status = 401

\* both misuses made while the tokens are fresh
C17_Witness ==
    \E p \in Procs :
        /\ mpc[p] = "done" /\ mcall[p].kind = "middleware"
        /\ \E i \in issued : /\ i.kind = "refresh"
                              /\ mcall[p].authorization = <<"Bearer", i.token>>
                              /\ mcall[p].at \div 1000 < i.token.exp
        /\ pc[p] = "done" /\ call[p].op = "refresh"
        /\ \E i \in issued : /\ i.kind = "access" /\ call[p].token = i.token
                              /\ call[p].at \div 1000 < i.token.exp

\* when a token string was first handed out as an access token
FirstIssuedAt(token) ==
    CHOOSE t \in {i.at : i \in {j \in issued : j.kind = "access" /\ j.token = token}} :
        \A i \in issued : (i.kind = "access" /\ i.token = token) => t <= i.at

AccessRequest(p) ==
    /\ mpc[p] = "done" /\ mcall[p].kind = "middleware"
    /\ mcall[p].authorization # NoHeader
    /\ \E i \in issued : /\ i.kind = "access"
                          /\ mcall[p].authorization = <<"Bearer", i.token>>

\* C18: the middleware accepts an access token only while the time is before
\* its issue time plus 15 minutes; a protected request made with it from then
\* on is answered 401, whatever logins and refreshes have happened since.
C18_AccessTokenLifetime ==
    \A p \in Procs :
        AccessRequest(p) =>
            LET deadline == FirstIssuedAt(mcall[p].authorization[2]) + 15 * 60 * 1000
            IN  /\ mres[p].next => mcall[p].at < deadline
                /\ mcall[p].at >= deadline => (~mres[p].next /\ mres[p].status = 401)

\* an expired token used after a later login or refresh issued a new one
C18_Witness ==
    \E p \in Procs :
        /\ AccessRequest(p)
        /\ mcall[p].at >= FirstIssuedAt(mcall[p].authorization[2]) + 15 * 60 * 1000
        /\ \E i \in issued : i.kind = "access" /\ i.at > FirstIssuedAt(mcall[p].authorization[2])
                              /\ i.at <= mcall[p].at

(* ======================= refresh: store effects ======================= *)

\* C27: when the insert of the replacement record fails after the lookup
\* succeeded, a record of the presented refresh token is still stored.
C27_RefreshWriteAllOrNothing ==
    \A p \in Procs :
        (RefreshDone(p) /\ res[p] = RefreshFailed(P2002)) =>
            TokenRows(call[p].token) # {}

\* the steps of a refresh call up to a 401: the one that verifies the token
\* and starts the lookup, and the one in which the lookup answers
VerifyStep(p) ==
    /\ calls' = calls + 1
    /\ call'[p].op = "refresh"
    /\ pc'[p] = "ref_find" \/ (pc'[p] = "done" /\ res'[p] = RefreshInvalidToken)

LookupFailsStep(p) ==
    /\ pc[p] = "ref_find"
    /\ pc'[p] = "done"
    /\ res'[p] = RefreshNotStored

\* C29: a refresh call that fails at token verification or at the record
\* lookup leaves the refresh-token records and the identities as they were;
\* the record it found expired is still stored after it.
C29_FailedRefreshKeepsStore ==
    [][\A p \in Procs :
          /\ (VerifyStep(p) \/ LookupFailsStep(p)) =>
                (refreshTokens' = refreshTokens /\ users' = users)
          /\ (LookupFailsStep(p) /\ call'[p].seen # NoRow) =>
                call'[p].seen \in refreshTokens']_vars

C29_Witness ==
    \E p \in Procs :
        /\ RefreshDone(p)
        /\ res[p] = RefreshNotStored
        /\ StoredRecordPastExpiry(call[p])
        /\ call[p].seen \in refreshTokens

\* the records of one session lineage
LineageRows(lineage) == {r \in refreshTokens : lin[r.id] = lineage}

\* C30: no two refresh-token records hold the same token, and the records
\* of one session lineage are never more than one.
C30_OneRecordPerLineage ==
    /\ \A r, q \in refreshTokens : r.token = q.token => r = q
    /\ \A r \in refreshTokens : Cardinality(LineageRows(lin[r.id])) <= 1

\* two refresh calls of one lineage, interleaved: one rotated the record,
\* the other lost the delete
C30_Witness ==
    \E p, q \in Procs :
        /\ RefreshDone(p) /\ res[p].status = 200
        /\ RefreshDone(q) /\ call[q].lostRace
        /\ call[p].stored = call[q].stored
        /\ Cardinality(LineageRows(lin[call[p].stored.id])) = 1

(* ============================ rate: resetAt =========================== *)

\* C28: the resetAt a checkLimit call returns is the expiry of the window
\* its request falls in, the time of the window's first request plus 3600 s.
C28_ResetAtIsWindowExpiry ==
    \A p \in Procs :
        (mpc[p] = "done" /\ mcall[p].kind = "checkLimit") =>
            mcall[p].rateLimit.resetAt = mcall[p].wexp

(* =============================== content ============================== *)

LacksCreate(p) ==
    /\ ccall[p].op = "create"
    /\ ~hasPermission(ccall[p].headers.role, "content:create")

\* C24: a POST /api/content whose role lacks content:create is answered 403
\* and leaves no article and no content version of its user behind.
C24_CreateChecksPermission ==
    \A p \in Procs :
        LacksCreate(p) =>
            /\ cpc[p] = "done" => cres[p].status = 403
            /\ \A a \in articles : a.authorId # ccall[p].headers.id
            /\ \A v \in contentVersions : v.createdById # ccall[p].headers.id

\* C25: an article in status PUBLISHED got that status from a request made
\* with role admin or editor, and a publish request of another role is
\* answered 403.
C25_PublishReservedToEditors ==
    /\ \A a \in articles : a.status = "PUBLISHED" => a.statusBy \in {"admin", "editor"}
    /\ \A p \in Procs :
          (cpc[p] = "done" /\ ccall[p].op = "publish"
              /\ ccall[p].headers.role \notin {"admin", "editor"}) =>
                cres[p].status = 403

\* no content request is between its first store call and its answer
NoContentRequestInFlight == \A p \in Procs : cpc[p] \in {"idle", "done"}

SnapshotsOf(article) == {v \in contentVersions : v.contentId = article.id}

StoredByRefresh(r) == lin[r.id] # r.id

\* C31: refreshes of different lineages never make each other fail: when the
\* insert of a refresh call is refused, the record that holds the token it
\* tried to insert was not stored by a refresh of another lineage.
C31_LineagesIndependent ==
    \A p \in Procs :
        (RefreshDone(p) /\ res[p] = RefreshFailed(P2002)) =>
            \A r \in TokenRows(call[p].refreshToken) :
                StoredByRefresh(r) => lin[r.id] = lin[call[p].stored.id]

(* ============================ cache: incr ============================= *)

\* the step in which incr writes the value it computed
IncrSetStep(p) == mpc[p] = "incr_set" /\ mpc'[p] = "incr_ret"

\* a key get would answer for
Live(key) == cache[key].present /\ ~(now > cache[key].expiry)

\* C32: incr on a key that exists and has not expired raises the value by
\* exactly 1 and leaves the key's expiry as it was; on an absent or expired
\* key it stores 1.
C32_IncrKeepsExpiry ==
    [][\A p \in Procs :
          IncrSetStep(p) =>
              IF Live(MKey(p))
              THEN /\ cache'[MKey(p)].value =
                         NumToString(ParseInt(cache[MKey(p)].value) + 1)
                   /\ cache'[MKey(p)].expiry = cache[MKey(p)].expiry
              ELSE cache'[MKey(p)].value = NumToString(1)]_vars

(* ======================== rate: bucket choice ========================= *)

\* the request carries a Bearer access token that verifies
HoldsValidAccessToken(c) ==
    /\ extractToken(c.authorization) # NoToken
    /\ verifyAccessToken(extractToken(c.authorization))

\* C33: a request without a valid access token that the rate limiter admits
\* was counted in the anonymous bucket and is one of the first 100 of its
\* identifier's window; the authenticated bucket counts only requests whose
\* access token is valid.
C33_BucketByValidToken ==
    \A p \in Procs :
        (/\ MiddlewareDone(p)
         /\ mcall[p].limited
         /\ mcall[p].rateLimit.allowed
         /\ ~HoldsValidAccessToken(mcall[p])) =>
            /\ mcall[p].type = "anonymous"
            /\ mcall[p].count <= LimitAnonymous

(* ===================== registration: store effects ==================== *)

\* C34: a register call that returns anything other than 201 has created no
\* identity: the email it was given is free for the same registration again.
C34_RegisterAllOrNothing ==
    \A p \in Procs :
        (RegisterDone(p) /\ res[p].status # 201) =>
            ~\E u \in users : u.id = call[p].userId /\ u.email = call[p].email

(* ====================== content: edit and delete ====================== *)

\* who may change an article: admins, editors and its author
Permitted(headers, article) ==
    headers.role \in {"admin", "editor"} \/ headers.id = article.authorId

\* the article a request names, as it was first stored: ids are not reused
\* and the authorId of an article never changes
Named(p) == CHOOSE a \in {FirstArticle} : a.id = ccall[p].id

\* the steps of PUT and DELETE that write: the article's update, its delete,
\* the creation of a tag, the creation of a content version
WriteStep(p) ==
    /\ ccall[p].op \in {"update", "delete"}
    /\ cpc[p] \in {"update_article", "delete_article", "tag_create", "update_version"}
    /\ cpc'[p] # cpc[p]

\* the step in which PUT or DELETE has looked the article up
FoundStep(p) ==
    /\ cpc[p] \in {"update_find", "delete_find"}
    /\ cpc'[p] # cpc[p]
    /\ ArticleById(ccall[p].id) # {}

\* C35: PUT and DELETE write only for a request whose role is admin or
\* editor or whose user id is the article's authorId; every other request
\* for an existing article is answered 403, and the step that answers leaves
\* the articles, the tags and the content versions as they were.
C35_EditReservedToOwnerAndEditors ==
    [][\A p \in Procs :
          /\ WriteStep(p) =>
                /\ \A a \in articles \ articles' :
                      a.id = ccall[p].id /\ Permitted(ccall[p].headers, a)
                /\ \A a \in articles' :
                      a.id = ccall[p].id => Permitted(ccall[p].headers, a)
                /\ (tags' # tags \/ contentVersions' # contentVersions) =>
                      Permitted(ccall[p].headers, Named(p))
          /\ (FoundStep(p)
                /\ \E a \in ArticleById(ccall[p].id) : ~Permitted(ccall[p].headers, a)) =>
                /\ cpc'[p] = "done"
                /\ cres'[p].status = 403
                /\ articles' = articles
                /\ tags' = tags
                /\ contentVersions' = contentVersions
          /\ (~WriteStep(p) /\ ccall[p].op \in {"update", "delete"}) =>
                \/ <<articles, tags, contentVersions>>' = <<articles, tags, contentVersions>>
                \/ \E q \in Procs \ {p} : WriteStep(q)]_vars

C35_Witness ==
    \E p, q \in Procs :
        /\ cpc[p] = "done" /\ ccall[p].op = "delete" /\ cres[p].status = 403
        /\ ccall[p].headers.role = "author"
        /\ cpc[q] = "done" /\ ccall[q].op = "update" /\ cres[q].status = 200
        /\ ccall[q].headers.role = "author"
        /\ tags # {}

(* =========================== content: slugs =========================== *)

\* the step in which prisma.article.create answers
InsertStep(p) == cpc[p] = "create_article" /\ cpc'[p] # cpc[p]

\* C36: no two articles have the same slug, and the insert of an article is
\* never refused: whatever the interleaving of the create requests, the
\* insert stores the article under the slug the request has chosen.
C36_SlugsNeverClash ==
    [][\A p \in Procs :
          InsertStep(p) =>
              /\ cpc'[p] = "create_version"
              /\ \E a \in articles' \ articles : a.slug = ccall[p].slug
              /\ \A a, b \in articles' : a.slug = b.slug => a = b]_vars

(* ============================== realtime ============================== *)

\* how often a stream holds the message of emit number n
TimesEnqueued(c, n) ==
    Cardinality({k \in DOMAIN streams[c].queue : streams[c].queue[k] = emitted[n].message})

Calls == Logged("call")

Runs == Logged("run")

\* a call that no other call follows within wait
BurstEnd(i) == i = Len(Calls) \/ Calls[i + 1].at - Calls[i].at >= cfg.wait

\* C38: func runs once for every burst of calls, wait after the burst's last
\* call and with that call's arguments, and it runs for nothing else; a call
\* that comes at least wait after the previous one ends the previous burst.
C38_RunsWaitAfterLastCall ==
    /\ \A i \in DOMAIN Calls :
          (BurstEnd(i) /\ now > Calls[i].at + cfg.wait) =>
              Cardinality({j \in DOMAIN Runs :
                              /\ Runs[j].at = Calls[i].at + cfg.wait
                              /\ Runs[j].args = Calls[i].args}) = 1
    /\ \A j \in DOMAIN Runs :
          \E i \in DOMAIN Calls :
              /\ BurstEnd(i)
              /\ Runs[j].at = Calls[i].at + cfg.wait
              /\ Runs[j].args = Calls[i].args

\* C38, amended: every run of func comes straight after a call, with that
\* call's arguments and no sooner than wait after it, so calls less than wait
\* apart have no run between them; a timer is pending exactly when the last
\* thing that happened is a call, and it is the only one.
C38_RunsAfterLastCallOfBurst ==
    /\ \A k \in DOMAIN dlog :
          dlog[k].kind = "run" =>
              /\ k > 1
              /\ dlog[k - 1].kind = "call"
              /\ dlog[k - 1].args = dlog[k].args
              /\ dlog[k].at >= dlog[k - 1].at + cfg.wait
              /\ k < Len(dlog) => dlog[k + 1].at - dlog[k - 1].at >= cfg.wait
    /\ Cardinality(timers) <= 1
    /\ timers # {} <=> (dlog # <<>> /\ dlog[Len(dlog)].kind = "call")
    /\ \A t \in timers : timeout = t.id /\ t.args = dlog[Len(dlog)].args
    /\ timers = {} => timeout = 0

\* a call that came wait after the previous one while the timer had not run
\* yet, and the one run that followed, late
C38_Witness ==
    /\ Len(dlog) = 3
    /\ dlog[1].kind = "call"
    /\ dlog[2].kind = "call"
    /\ dlog[2].at - dlog[1].at >= cfg.wait
    /\ dlog[2].args # dlog[1].args
    /\ dlog[3].kind = "run"
    /\ dlog[3].at > dlog[2].at + cfg.wait

====
